---- MODULE Spec2Model ----
(***************************************************************************)
(* Model of the URL scanner's lexical classifier and its pattern store     *)
(* (supabase/functions/url-scanner/index.ts, src/services/zeroTrust.ts,    *)
(* table ml_patterns of the 20251025032226 migration).                     *)
(*                                                                         *)
(* Probabilities are JavaScript numbers, i.e. IEEE-754 binary64 values.    *)
(* They are modelled bit-exactly: a value is a record [e, hi, lo] standing *)
(* for (hi * 2^LoBits + lo) * 2^(e - 52) with a normalised 53-bit          *)
(* significand, or DblZero.  Sums and quotients are rounded to nearest,    *)
(* ties to even, as the language does.  All values of the model are        *)
(* non-negative and far from the subnormal and overflow ranges.            *)
(***************************************************************************)
EXTENDS Integers, Sequences, FiniteSets, TLC, Bags

\* Width of the low limb of a significand (27 bits) and of the high limb (26 bits).
LoBits == 27
HiBits == 26

Pow2(n) == 2 ^ n

LoMod == Pow2(LoBits)
HiMin == Pow2(HiBits - 1)
HiMod == Pow2(HiBits)

DblZero == [e |-> 0, hi |-> 0, lo |-> 0]

IsZero(x) == x.hi = 0

\* Rounds the significand (hi, lo) with the guard bit g and the sticky bit s
\* to nearest, ties to even, and renormalises on a carry out of the top bit.
RoundEven(e, hi, lo, g, s) ==
  IF g = 1 /\ (s = 1 \/ lo % 2 = 1)
    THEN IF lo + 1 < LoMod
           THEN [e |-> e, hi |-> hi, lo |-> lo + 1]
           ELSE IF hi + 1 < HiMod
                  THEN [e |-> e, hi |-> hi + 1, lo |-> 0]
                  ELSE [e |-> e + 1, hi |-> HiMin, lo |-> 0]
    ELSE [e |-> e, hi |-> hi, lo |-> lo]

\* The significand of y shifted right by d bits (0 <= d), with the guard and
\* sticky bits of what was shifted out.
ShiftRight(y, d) ==
  IF d = 0 THEN [hi |-> y.hi, lo |-> y.lo, g |-> 0, s |-> 0]
  ELSE IF d <= LoBits
    THEN LET out == y.lo % Pow2(d)
         IN  [hi |-> y.hi \div Pow2(d),
              lo |-> (y.lo \div Pow2(d)) + (y.hi % Pow2(d)) * Pow2(LoBits - d),
              g  |-> out \div Pow2(d - 1),
              s  |-> IF out % Pow2(d - 1) # 0 THEN 1 ELSE 0]
  ELSE IF d <= LoBits + HiBits
    THEN LET k   == d - LoBits
             out == y.hi % Pow2(k)
         IN  [hi |-> 0,
              lo |-> y.hi \div Pow2(k),
              g  |-> out \div Pow2(k - 1),
              s  |-> IF out % Pow2(k - 1) # 0 \/ y.lo # 0 THEN 1 ELSE 0]
  ELSE [hi |-> 0, lo |-> 0, g |-> 0, s |-> 1]

\* x + y for x.e >= y.e, both non-zero.
AddOrdered(x, y) ==
  LET sh    == ShiftRight(y, x.e - y.e)
      lsum  == x.lo + sh.lo
      lo    == lsum % LoMod
      hi    == x.hi + sh.hi + (lsum \div LoMod)
  IN  IF hi < HiMod
        THEN RoundEven(x.e, hi, lo, sh.g, sh.s)
        ELSE RoundEven(x.e + 1,
                       hi \div 2,
                       (lo \div 2) + (hi % 2) * Pow2(LoBits - 1),
                       lo % 2,
                       IF sh.g = 1 \/ sh.s = 1 THEN 1 ELSE 0)

\* The language's a + b on numbers.
DblAdd(x, y) ==
  IF IsZero(x) THEN y
  ELSE IF IsZero(y) THEN x
  ELSE IF x.e >= y.e THEN AddOrdered(x, y) ELSE AddOrdered(y, x)

\* x / 2: exact, only the exponent changes.
DblHalf(x) == IF IsZero(x) THEN x ELSE [x EXCEPT !.e = x.e - 1]

\* The language's a > b on numbers (non-negative values).
DblGreater(x, y) ==
  IF IsZero(x) THEN FALSE
  ELSE IF IsZero(y) THEN TRUE
  ELSE \/ x.e > y.e
       \/ x.e = y.e /\ x.hi > y.hi
       \/ x.e = y.e /\ x.hi = y.hi /\ x.lo > y.lo

DblMin(x, y) == IF DblGreater(x, y) THEN y ELSE x

\* Long division: the next n quotient bits of r / d (0 <= r < d, n <= 14,
\* d < 2^16), most significant first, and the remainder.
DivBits(r, d, n) ==
  [q |-> (r * Pow2(n)) \div d, r |-> (r * Pow2(n)) % d]

\* The exponent of n / d (n, d > 0): the e with 2^e <= n / d < 2^(e + 1).
QuotExp(n, d) ==
  CHOOSE e \in -12..12 :
    IF e >= 0
      THEN d * Pow2(e) <= n /\ n < 2 * d * Pow2(e)
      ELSE d <= n * Pow2(-e) /\ n * Pow2(-e) < 2 * d

\* The language's n / d for small non-negative integers n and d > 0: the
\* quotient rounded to the nearest binary64 value.  The significand is
\* (n / d) / 2^e, in [1, 2): its leading bit, then 25 + 27 bits and a guard
\* bit by long division, the remainder giving the sticky bit.
DblDiv(n, d) ==
  IF n = 0 THEN DblZero
  ELSE LET e   == QuotExp(n, d)
           num == IF e < 0 THEN n * Pow2(-e) ELSE n
           den == IF e > 0 THEN d * Pow2(e) ELSE d
           h1  == DivBits(num - den, den, 13)
           h2  == DivBits(h1.r, den, HiBits - 14)
           l1  == DivBits(h2.r, den, 14)
           l2  == DivBits(l1.r, den, LoBits - 14)
           gd  == DivBits(l2.r, den, 1)
       IN  RoundEven(e,
                     HiMin + h1.q * Pow2(HiBits - 14) + h2.q,
                     l1.q * Pow2(LoBits - 14) + l2.q,
                     gd.q,
                     IF gd.r # 0 THEN 1 ELSE 0)

\* n / 100 for the integers 0..100, tabulated once.
Hundredths == [n \in 0..100 |-> DblDiv(n, 100)]

\* The numeric literal 0.nn of the source, n in hundredths: the binary64
\* value nearest to n / 100.
Lit(n) == Hundredths[n]

(***************************************************************************)
(* Bounds of the model.                                                    *)
(***************************************************************************)
\* Number of scan requests (runs of performMLClassification) in a behaviour.
MaxScans == 3

Scans == 1..MaxScans

\* Number of scans in a behaviour whose store calls may fail.
MaxFailScans == 2

(***************************************************************************)
(* Inputs.  A feature record is what extractMLFeatures returns; the        *)
(* entropy is held in hundredths of a bit.                                 *)
(***************************************************************************)
Feat(len, hyph, dig, spec, ip, kw, ent, sub, depth) ==
  [urlLength |-> len, numHyphens |-> hyph, numDigits |-> dig,
   numSpecialChars |-> spec, hasIpAddress |-> ip, hasSuspiciousKeywords |-> kw,
   entropyScore |-> ent, subdomainCount |-> sub, pathDepth |-> depth]

\* Host names, as character sequences: ShortHost occurs inside LongHost.
ShortHost == <<"p", ".", "c">>
LongHost  == <<"x", "p", ".", "c">>

\* Scan requests: the host of the URL and the features of the URL.
Request(domain, features) == [domain |-> domain, features |-> features]

\* The requests of overlapping scans: raw scores 30, 50 and 80 for
\* ShortHost, 40 for LongHost.
ScanInputs ==
  { Request(ShortHost, Feat(80, 0, 0, 6, FALSE, FALSE, 380, 0, 0)),
    Request(ShortHost, Feat(80, 3, 0, 2, TRUE, FALSE, 380, 0, 0)),
    Request(ShortHost, Feat(80, 3, 9, 2, TRUE, TRUE, 380, 0, 0)),
    Request(LongHost,  Feat(40, 3, 0, 2, FALSE, TRUE, 380, 0, 6)) }

\* The requests of scans run one after the other: raw scores 0, 30, 40, 50,
\* 70, 80 and 100 for ShortHost, 40 for LongHost.
SeqInputs ==
  ScanInputs \cup
  { Request(ShortHost, Feat(19, 0, 0, 3, FALSE, FALSE, 350, 0, 0)),
    Request(ShortHost, Feat(80, 3, 0, 6, FALSE, FALSE, 380, 0, 0)),
    Request(ShortHost, Feat(80, 3, 0, 2, TRUE, TRUE, 380, 0, 0)),
    Request(ShortHost, Feat(120, 3, 9, 6, TRUE, TRUE, 460, 4, 6)) }

\* The feature sets the scorer is applied to on its own: every combination
\* of values on either side of each rule's threshold.
ScoreInputs ==
  { Feat(len, hyph, dig, spec, ip, kw, ent, sub, depth) :
      len \in {74, 76, 99, 101}, hyph \in {2, 3}, dig \in {8, 9}, spec \in {5, 6},
      ip \in BOOLEAN, kw \in BOOLEAN, ent \in {450, 451}, sub \in {3, 4},
      depth \in {5, 6} }

(***************************************************************************)
(* The classifier's pure parts.                                            *)
(***************************************************************************)
Min(a, b) == IF a < b THEN a ELSE b

Max(a, b) == IF a > b THEN a ELSE b

Pts(cond, n) == IF cond THEN n ELSE 0

\* Mutant of calculateMLThreatScore: the sum is returned without the clamp.
calculateMLThreatScore_Unclamped(features) ==
    Pts(features.urlLength > 75, 15)
  + Pts(features.urlLength > 100, 10)
  + Pts(features.numHyphens > 2, 10)
  + Pts(features.numDigits > 8, 10)
  + Pts(features.numSpecialChars > 5, 15)
  + Pts(features.hasIpAddress, 25)
  + Pts(features.hasSuspiciousKeywords, 20)
  + Pts(features.entropyScore > 450, 15)
  + Pts(features.subdomainCount > 3, 15)
  + Pts(features.pathDepth > 5, 10)

\* Mutant of calculateMLThreatScore: the rule length > 100 adds 25 on its own.
calculateMLThreatScore_Long25(features) ==
  Min(100,
      Pts(features.urlLength > 75, 15)
    + Pts(features.urlLength > 100, 25)
    + Pts(features.numHyphens > 2, 10)
    + Pts(features.numDigits > 8, 10)
    + Pts(features.numSpecialChars > 5, 15)
    + Pts(features.hasIpAddress, 25)
    + Pts(features.hasSuspiciousKeywords, 20)
    + Pts(features.entropyScore > 450, 15)
    + Pts(features.subdomainCount > 3, 15)
    + Pts(features.pathDepth > 5, 10))

calculateMLThreatScore(features) ==
  Min(100,
      Pts(features.urlLength > 75, 15)
    + Pts(features.urlLength > 100, 10)
    + Pts(features.numHyphens > 2, 10)
    + Pts(features.numDigits > 8, 10)
    + Pts(features.numSpecialChars > 5, 15)
    + Pts(features.hasIpAddress, 25)
    + Pts(features.hasSuspiciousKeywords, 20)
    + Pts(features.entropyScore > 450, 15)
    + Pts(features.subdomainCount > 3, 15)
    + Pts(features.pathDepth > 5, 10))

Push(cond, label) == IF cond THEN <<label>> ELSE <<>>

\* Mutant of predictedCategories: the entropy rule pushed before the
\* subdomain rule.
predictedCategories_EntropyFirst(features) ==
     Push(features.hasIpAddress, "IP-based URL")
  \o Push(features.hasSuspiciousKeywords, "Suspicious keywords")
  \o Push(features.urlLength > 100, "Abnormally long URL")
  \o Push(features.entropyScore > 450, "High entropy")
  \o Push(features.subdomainCount > 3, "Excessive subdomains")

\* The categories pushed before the historical lookup.
predictedCategories(features) ==
     Push(features.hasIpAddress, "IP-based URL")
  \o Push(features.hasSuspiciousKeywords, "Suspicious keywords")
  \o Push(features.urlLength > 100, "Abnormally long URL")
  \o Push(features.subdomainCount > 3, "Excessive subdomains")
  \o Push(features.entropyScore > 450, "High entropy")

(***************************************************************************)
(* The pattern store.  ml_patterns is the table ml_patterns: a sequence of *)
(* rows, a row's id being its position (rows are never deleted).  The      *)
(* table has no uniqueness constraint on url_pattern.                      *)
(***************************************************************************)
NoRow == [id |-> 0]

\* url_pattern ILIKE '%domain%': domain occurs in pattern as a substring.
\* Host names are lower case, so ILIKE's case folding changes nothing.
ilike(pattern, domain) ==
  \E i \in 0..(Len(pattern) - Len(domain)) :
     SubSeq(pattern, i + 1, i + Len(domain)) = domain

\* The rows checkHistoricalPatterns may return: of the rows matching the
\* ILIKE, one with the greatest confidence_score (which one of several with
\* the same score is the store's choice); NoRow when none matches.
checkHistoricalPatterns(domain, table) ==
  LET match == { i \in 1..Len(table) : ilike(table[i].url_pattern, domain) }
      top   == { i \in match : \A j \in match :
                   ~DblGreater(table[j].confidence_score, table[i].confidence_score) }
  IN  IF match = {} THEN {NoRow} ELSE { table[i] : i \in top }

\* select('*').eq('url_pattern', domain).maybeSingle(): the row when exactly
\* one row has that url_pattern; null data when none has, and null data with
\* an error the caller does not look at when several have.
maybeSingle(domain, table) ==
  LET match == { i \in 1..Len(table) : table[i].url_pattern = domain }
  IN  IF Cardinality(match) = 1 THEN table[CHOOSE i \in match : TRUE] ELSE NoRow

\* Mutant of PatternType: the phishing threshold taken as >= 0.7.
PatternType_AtLeast(threatProbability) ==
  IF ~DblGreater(Lit(70), threatProbability) THEN "phishing"
  ELSE IF DblGreater(threatProbability, Lit(40)) THEN "suspicious"
  ELSE "legitimate"

PatternType(threatProbability) ==
  IF DblGreater(threatProbability, Lit(70)) THEN "phishing"
  ELSE IF DblGreater(threatProbability, Lit(40)) THEN "suspicious"
  ELSE "legitimate"

\* Mutant of AdjustedProbability: the sum is not halved.
AdjustedProbability_Sum(threatProbability, historicalPattern) ==
  IF historicalPattern # NoRow
    THEN DblAdd(threatProbability, historicalPattern.confidence_score)
    ELSE threatProbability

\* The blended probability of performMLClassification.
AdjustedProbability(threatProbability, historicalPattern) ==
  IF historicalPattern # NoRow
    THEN DblHalf(DblAdd(threatProbability, historicalPattern.confidence_score))
    ELSE threatProbability

\* Mutant of Confidence: the raised confidence whether or not there is history.
Confidence_Raised(historicalPattern) ==
  DblMin(Lit(95), DblAdd(Lit(75), Lit(15)))

Confidence(historicalPattern) ==
  IF historicalPattern # NoRow
    THEN DblMin(Lit(95), DblAdd(Lit(75), Lit(15)))
    ELSE Lit(75)

KnownPattern(historicalPattern) ==
  Push(historicalPattern # NoRow /\ historicalPattern.pattern_type = "phishing",
       "Known phishing pattern")

\* Mutant of IsPhishing: the threshold taken as >= 0.5.
IsPhishing_AtLeast(adjustedProbability) ==
  ~DblGreater(Lit(50), adjustedProbability)

IsPhishing(adjustedProbability) == DblGreater(adjustedProbability, Lit(50))

\* Mutant of UpdatedRow: the new probability replaces the stored average.
UpdatedRow_Overwrite(row, existing, features, threatProbability) ==
  [row EXCEPT !.detection_count = existing.detection_count + 1,
              !.confidence_score = threatProbability,
              !.features = features]

\* Mutant of UpdatedRow: the stored and the new probability are added and
\* not halved.
UpdatedRow_Sum(row, existing, features, threatProbability) ==
  [row EXCEPT !.detection_count = existing.detection_count + 1,
              !.confidence_score =
                 DblAdd(existing.confidence_score, threatProbability),
              !.features = features]

\* The row updateMLPatterns writes over an existing row.
UpdatedRow(row, existing, features, threatProbability) ==
  [row EXCEPT !.detection_count = existing.detection_count + 1,
              !.confidence_score =
                 DblHalf(DblAdd(existing.confidence_score, threatProbability)),
              !.features = features]

\* The row updateMLPatterns inserts.
InsertedRow(id, domain, features, threatProbability) ==
  [id |-> id, url_pattern |-> domain,
   pattern_type |-> PatternType(threatProbability),
   confidence_score |-> threatProbability,
   detection_count |-> 1,
   features |-> features]

(***************************************************************************)
(* Strings and feature extraction.  A string is a sequence of characters,  *)
(* a character a one-character string.                                     *)
(***************************************************************************)
Digits == {"0", "1", "2", "3", "4", "5", "6", "7", "8", "9"}

LowerCase == <<"a", "b", "c", "d", "e", "f", "g", "h", "i", "j", "k", "l", "m",
               "n", "o", "p", "q", "r", "s", "t", "u", "v", "w", "x", "y", "z">>

UpperCase == <<"A", "B", "C", "D", "E", "F", "G", "H", "I", "J", "K", "L", "M",
               "N", "O", "P", "Q", "R", "S", "T", "U", "V", "W", "X", "Y", "Z">>

IsLower(c) == \E k \in 1..26 : LowerCase[k] = c

IsUpper(c) == \E k \in 1..26 : UpperCase[k] = c

\* String.prototype.toLowerCase.
toLowerCase(str) ==
  [i \in 1..Len(str) |->
     IF IsUpper(str[i]) THEN LowerCase[CHOOSE k \in 1..26 : UpperCase[k] = str[i]]
     ELSE str[i]]

\* String.prototype.startsWith and String.prototype.includes.
startsWith(str, prefix) ==
  Len(prefix) <= Len(str) /\ SubSeq(str, 1, Len(prefix)) = prefix

includes(str, sub) ==
  \E i \in 0..(Len(str) - Len(sub)) : SubSeq(str, i + 1, i + Len(sub)) = sub

\* (str.match(/c/g) || []).length for the characters of the set chars.
MatchCount(str, chars) == Cardinality({ i \in 1..Len(str) : str[i] \in chars })

\* str.split(sep).length and str.split(sep)[0], sep one character.
SplitLength(str, sep) == MatchCount(str, {sep}) + 1

SplitFirst(str, sep) ==
  IF \E i \in 1..Len(str) : str[i] = sep
    THEN SubSeq(str, 1, (CHOOSE i \in 1..Len(str) :
                           str[i] = sep /\ \A j \in 1..(i - 1) : str[j] # sep) - 1)
    ELSE str

AllDigits(str, from, to) ==
  to <= Len(str) /\ \A i \in from..to : str[i] \in Digits

\* /\d{1,3}\.\d{1,3}\.\d{1,3}\.\d{1,3}/.test(str): the pattern is not
\* anchored, so it matches anywhere in the string.
DottedQuadTest(str) ==
  \E i \in 1..Len(str) : \E a, b \in 1..3 :
     /\ i + a + b + 4 <= Len(str)
     /\ str[i] \in Digits
     /\ str[i + 1] = "."
     /\ AllDigits(str, i + 2, i + 1 + a)
     /\ str[i + 2 + a] = "."
     /\ AllDigits(str, i + 3 + a, i + 2 + a + b)
     /\ str[i + 3 + a + b] = "."
     /\ str[i + 4 + a + b] \in Digits

Https == <<"h", "t", "t", "p", "s", ":", "/", "/">>
Http  == <<"h", "t", "t", "p", ":", "/", "/">>

NoURL == [ok |-> FALSE, hostname |-> <<>>]

\* The host of an http(s) URL from its text after the scheme: the text up to
\* the first "/".  The parse fails when the host is empty or has a space (a
\* forbidden host code point).  Covers the strings of UrlInputs: letters,
\* digits, ".", "-", "/" and inner spaces, a host whose last label is a
\* number being a dotted quad.
HostOf(rest) ==
  LET host == SplitFirst(rest, "/")
  IN  IF host = <<>> \/ includes(host, <<" ">>) THEN NoURL
      ELSE [ok |-> TRUE, hostname |-> toLowerCase(host)]

\* new URL(str): the parse throws for a string with no scheme.
NewURL(str) ==
  IF startsWith(str, Https) THEN HostOf(SubSeq(str, Len(Https) + 1, Len(str)))
  ELSE IF startsWith(str, Http) THEN HostOf(SubSeq(str, Len(Http) + 1, Len(str)))
  ELSE NoURL

\* new URL(url.startsWith('http') ? url : `https://${url}`)
PrefixedURL(url) ==
  NewURL(IF startsWith(url, <<"h", "t", "t", "p">>) THEN url ELSE Https \o url)

\* log2(k) for k = 1..40, in units of 1/10000 bit.
Log2e4 ==
  << 0, 10000, 15850, 20000, 23219, 25850, 28074, 30000, 31699, 33219,
     34594, 35850, 37004, 38074, 39069, 40000, 40875, 41699, 42479, 43219,
     43923, 44594, 45236, 45850, 46439, 47004, 47549, 48074, 48580, 49069,
     49542, 50000, 50444, 50875, 51293, 51699, 52095, 52479, 52854, 53219 >>

RECURSIVE SumSeq(_, _, _)
SumSeq(t, lo, hi) ==
  IF lo > hi THEN 0
  ELSE IF lo = hi THEN t[lo]
  ELSE LET mid == (lo + hi) \div 2
       IN  SumSeq(t, lo, mid) + SumSeq(t, mid + 1, hi)

\* calculateEntropy, in hundredths of a bit: the Shannon entropy
\* -sum p log2 p of the character frequencies, which is
\* log2(len) - (sum over the positions of log2(count of the character)) / len.
calculateEntropy(str) ==
  LET len == Len(str)
      count(i) == Cardinality({ j \in 1..len : str[j] = str[i] })
      terms == [i \in 1..len |-> Log2e4[count(i)]]
  IN  IF len = 0 THEN 0
      ELSE (Log2e4[len] - SumSeq(terms, 1, len) \div len) \div 100

suspiciousKeywords ==
  { <<"l", "o", "g", "i", "n">>,
    <<"v", "e", "r", "i", "f", "y">>,
    <<"a", "c", "c", "o", "u", "n", "t">>,
    <<"u", "p", "d", "a", "t", "e">>,
    <<"s", "e", "c", "u", "r", "e">>,
    <<"b", "a", "n", "k", "i", "n", "g">>,
    <<"p", "a", "s", "s", "w", "o", "r", "d">>,
    <<"c", "o", "n", "f", "i", "r", "m">>,
    <<"s", "u", "s", "p", "e", "n", "d", "e", "d">>,
    <<"l", "o", "c", "k", "e", "d">>,
    <<"u", "r", "g", "e", "n", "t">> }

\* The characters of [a-zA-Z0-9.-].
PlainChars ==
  Digits \cup {".", "-"} \cup { LowerCase[k] : k \in 1..26 }
         \cup { UpperCase[k] : k \in 1..26 }

\* hostname of extractMLFeatures: the parsed host, or on a failed parse the
\* text before the first "/".
FeatureHost(url) ==
  IF PrefixedURL(url).ok THEN PrefixedURL(url).hostname ELSE SplitFirst(url, "/")

\* Mutant of extractMLFeatures: a failed parse leaves the host empty.
extractMLFeatures_NoFallback(url) ==
  Feat(Len(url),
       MatchCount(url, {"-"}),
       MatchCount(url, Digits),
       Len(url) - MatchCount(url, PlainChars),
       DottedQuadTest(url),
       \E k \in suspiciousKeywords : includes(toLowerCase(url), k),
       calculateEntropy(url),
       IF PrefixedURL(url).ok /\ SplitLength(FeatureHost(url), ".") - 2 > 0
         THEN SplitLength(FeatureHost(url), ".") - 2 ELSE 0,
       IF SplitLength(url, "/") - 3 > 0 THEN SplitLength(url, "/") - 3 ELSE 0)

extractMLFeatures(url) ==
  Feat(Len(url),
       MatchCount(url, {"-"}),
       MatchCount(url, Digits),
       Len(url) - MatchCount(url, PlainChars),
       DottedQuadTest(url),
       \E k \in suspiciousKeywords : includes(toLowerCase(url), k),
       calculateEntropy(url),
       IF SplitLength(FeatureHost(url), ".") - 2 > 0
         THEN SplitLength(FeatureHost(url), ".") - 2 ELSE 0,
       IF SplitLength(url, "/") - 3 > 0 THEN SplitLength(url, "/") - 3 ELSE 0)

\* The classifier of the client (MLURLClassifier of src/services/zeroTrust.ts).
SUSPICIOUS_KEYWORDS ==
  { <<"l", "o", "g", "i", "n">>,
    <<"v", "e", "r", "i", "f", "y">>,
    <<"a", "c", "c", "o", "u", "n", "t">>,
    <<"u", "p", "d", "a", "t", "e">>,
    <<"s", "e", "c", "u", "r", "e">>,
    <<"b", "a", "n", "k", "i", "n", "g">>,
    <<"p", "a", "s", "s", "w", "o", "r", "d">>,
    <<"c", "o", "n", "f", "i", "r", "m">>,
    <<"s", "u", "s", "p", "e", "n", "d", "e", "d">>,
    <<"l", "o", "c", "k", "e", "d">>,
    <<"u", "r", "g", "e", "n", "t">>,
    <<"c", "l", "i", "c", "k">>,
    <<"w", "i", "n", "n", "e", "r">>,
    <<"p", "r", "i", "z", "e">>,
    <<"f", "r", "e", "e">>,
    <<"s", "e", "c", "u", "r", "i", "t", "y">> }

extractFeatures(url) ==
  Feat(Len(url),
       MatchCount(url, {"-"}),
       MatchCount(url, Digits),
       Len(url) - MatchCount(url, PlainChars),
       DottedQuadTest(url),
       \E keyword \in SUSPICIOUS_KEYWORDS : includes(toLowerCase(url), keyword),
       calculateEntropy(url),
       Max(0, SplitLength(FeatureHost(url), ".") - 2),
       Max(0, SplitLength(url, "/") - 3))

calculateThreatScore(features) ==
  Min(100,
      Pts(features.urlLength > 75, 15)
    + Pts(features.urlLength > 100, 10)
    + Pts(features.numHyphens > 2, 10)
    + Pts(features.numDigits > 8, 10)
    + Pts(features.numSpecialChars > 5, 15)
    + Pts(features.hasIpAddress, 25)
    + Pts(features.hasSuspiciousKeywords, 20)
    + Pts(features.entropyScore > 450, 15)
    + Pts(features.subdomainCount > 3, 15)
    + Pts(features.pathDepth > 5, 10))

\* classifyURL before the historical lookup: score and categories.
classifyURL(url) ==
  LET features == extractFeatures(url)
  IN  [threatScore |-> calculateThreatScore(features),
       predictedCategories |->
            Push(features.hasIpAddress, "IP-based URL")
         \o Push(features.hasSuspiciousKeywords, "Suspicious keywords")
         \o Push(features.urlLength > 100, "Abnormally long URL")
         \o Push(features.subdomainCount > 3, "Excessive subdomains")
         \o Push(features.entropyScore > 450, "High entropy")]

\* URL strings: a scheme or none, a host, a path.
UrlPrefixes == { <<>>, Https, Http }

UrlHosts ==
  { <<"a", ".", "b">>,
    <<"1", ".", "2", ".", "3", ".", "4">>,
    <<"a", ".", "a", ".", "a", ".", "a", ".", "a", ".", "b">>,
    <<"a", "-", "a", "-", "a", "-", "a", ".", "b">>,
    <<"a", " ", "b">>,
    <<"a", " ", "b", ".", "c", ".", "d">>,
    <<"1", ".", "2", ".", "3", ".", "4", " ", "a">> }

UrlPaths ==
  { <<>>,
    <<"/">>,
    <<"/", "1", ".", "2", ".", "3", ".", "4">>,
    <<"/", "L", "o", "g", "i", "n">>,
    <<"/", "f", "r", "e", "e">>,
    <<"/", "a", "/", "a", "/", "a", "/", "a", "/", "a", "/", "a">> }

UrlInputs == { pre \o host \o path :
                 pre \in UrlPrefixes, host \in UrlHosts, path \in UrlPaths }

(***************************************************************************)
(* The safety score and the results of the lookups of performScan.         *)
(***************************************************************************)
getDefaultSSL == [isValid |-> FALSE, issuer |-> "Unknown", grade |-> "Unknown"]

getDefaultDomain == [ageDays |-> 0]

getDefaultIP == [address |-> "Unknown", country |-> "Unknown"]

getDefaultThreats ==
  [categories |-> <<>>, confidence |-> DblZero,
   maliciousCount |-> 0, suspiciousCount |-> 0]

\* /[a-z0-9]{20,}/.test(url)
LongRunTest(url) ==
  \E i \in 1..(Len(url) - 19) :
     \A j \in i..(i + 19) : url[j] \in Digits \/ IsLower(url[j])

\* /secure|login|verify|update|confirm/i.test(url)
KeywordTest(url) ==
  \E lower \in {toLowerCase(url)} :
  \E k \in { <<"s", "e", "c", "u", "r", "e">>, <<"l", "o", "g", "i", "n">>,
             <<"v", "e", "r", "i", "f", "y">>, <<"u", "p", "d", "a", "t", "e">>,
             <<"c", "o", "n", "f", "i", "r", "m">> } :
     includes(lower, k)

\* /-.*-.*-/g.test(url), the pattern being created anew for each call.
HyphensTest(url) == MatchCount(url, {"-"}) >= 3

\* The number of suspiciousPatterns that match url.
PatternMatches(url) ==
    Pts(DottedQuadTest(url), 1) + Pts(LongRunTest(url), 1)
  + Pts(KeywordTest(url), 1) + Pts(HyphensTest(url), 1)

\* Mutant of calculateSafetyScore: the result is not kept from falling
\* below 0.
calculateSafetyScore_NoFloor(ssl, domain, threats, url) ==
  100
  - (IF ~ssl.isValid THEN 25
     ELSE IF ssl.grade = "F" THEN 20
     ELSE IF ssl.grade = "C" \/ ssl.grade = "D" THEN 10 ELSE 0)
  - (IF domain.ageDays < 30 THEN 20
     ELSE IF domain.ageDays < 365 THEN 15
     ELSE IF domain.ageDays < 730 THEN 10 ELSE 0)
  - (IF threats.maliciousCount > 0 THEN 40
     ELSE IF threats.suspiciousCount > 3 THEN 30
     ELSE IF threats.suspiciousCount > 1 THEN 15 ELSE 0)
  - 4 * PatternMatches(url)

calculateSafetyScore(ssl, domain, threats, url) ==
  Max(100
      - (IF ~ssl.isValid THEN 25
         ELSE IF ssl.grade = "F" THEN 20
         ELSE IF ssl.grade = "C" \/ ssl.grade = "D" THEN 10 ELSE 0)
      - (IF domain.ageDays < 30 THEN 20
         ELSE IF domain.ageDays < 365 THEN 15
         ELSE IF domain.ageDays < 730 THEN 10 ELSE 0)
      - (IF threats.maliciousCount > 0 THEN 40
         ELSE IF threats.suspiciousCount > 3 THEN 30
         ELSE IF threats.suspiciousCount > 1 THEN 15 ELSE 0)
      - 4 * PatternMatches(url),
      0)

\* What checkSSLCertificate and basicSSLCheck return: a graded endpoint
\* (valid unless graded F or T), the HEAD request's answer (B or F), or the
\* default.
SslResults ==
  { [isValid |-> TRUE,  issuer |-> "CA", grade |-> "A"],
    [isValid |-> TRUE,  issuer |-> "CA", grade |-> "C"],
    [isValid |-> TRUE,  issuer |-> "CA", grade |-> "D"],
    [isValid |-> FALSE, issuer |-> "CA", grade |-> "F"],
    [isValid |-> FALSE, issuer |-> "CA", grade |-> "T"],
    [isValid |-> TRUE,  issuer |-> "Unknown", grade |-> "B"],
    [isValid |-> FALSE, issuer |-> "Unknown", grade |-> "F"],
    getDefaultSSL }

\* What getDomainInfo returns: ages on either side of each threshold, the
\* default being age 0.
DomainResults == { [ageDays |-> a] : a \in {0, 29, 30, 364, 365, 729, 730} }

\* The counts checkThreatIntelligence returns.
ThreatCounts ==
  { [categories |-> <<>>, confidence |-> DblZero,
     maliciousCount |-> m, suspiciousCount |-> n] : m \in {0, 1}, n \in 0..4 }

\* URLs matching none, one, two and all four of the suspiciousPatterns.
PlainUrl == Https \o <<"a", ".", "b">>
QuadUrl == Https \o <<"1", ".", "2", ".", "3", ".", "4">>
LoginUrl == Https \o <<"a", ".", "b", "/", "L", "o", "g", "i", "n", "-", "a", "-", "b", "-">>
AllPatternsUrl ==
  Https \o <<"1", ".", "2", ".", "3", ".", "4", "/", "l", "o", "g", "i", "n",
             "-", "a", "-", "b", "-">>
        \o [i \in 1..20 |-> "a"]

SafetyUrls == { PlainUrl, QuadUrl, LoginUrl, AllPatternsUrl }

SafetyInputs ==
  [ssl : SslResults, domain : DomainResults, threats : ThreatCounts, url : SafetyUrls]

NoSafetyInput ==
  [ssl |-> getDefaultSSL, domain |-> getDefaultDomain,
   threats |-> getDefaultThreats, url |-> <<>>]

NoSafetyScore == [done |-> FALSE, value |-> 0]

\* A row of url_scans; filled: the result columns have been written (they
\* are null before).
NoRecord ==
  [status |-> "none", url |-> <<>>, filled |-> FALSE, safety_score |-> 0,
   is_safe |-> FALSE, ssl_valid |-> FALSE, domain_age_days |-> 0,
   ip_address |-> "", threat_categories |-> <<>>, ml_confidence |-> DblZero]

\* insert({ url, status: 'pending' })
PendingRecord(url) == [NoRecord EXCEPT !.status = "pending", !.url = url]

\* An entry of the array Promise.allSettled resolves to.
Fulfilled(value) == [status |-> "fulfilled", value |-> value]
Rejected == [status |-> "rejected"]

\* Lines 101-104 of performScan: the value of a settled lookup, or its default.
ValueOr(settled, default) ==
  IF settled.status = "fulfilled" THEN settled.value ELSE default

\* Mutant of CompletedRecord: a scan is safe from a score of 60.
CompletedRecord_SafeAt60(record, settled) ==
  LET ssl        == ValueOr(settled.ssl, getDefaultSSL)
      domainInfo == ValueOr(settled.domain, getDefaultDomain)
      ipInfo     == ValueOr(settled.ip, getDefaultIP)
      threats    == ValueOr(settled.threat, getDefaultThreats)
      safetyScore == calculateSafetyScore(ssl, domainInfo, threats, record.url)
  IN  [record EXCEPT !.status = "completed",
                     !.filled = TRUE,
                     !.safety_score = safetyScore,
                     !.is_safe = (safetyScore >= 60),
                     !.ssl_valid = ssl.isValid,
                     !.domain_age_days = domainInfo.ageDays,
                     !.ip_address = ipInfo.address,
                     !.threat_categories = threats.categories,
                     !.ml_confidence = threats.confidence]

\* Mutant of CompletedRecord: a rejected lookup marks the scan failed.
CompletedRecord_FailOnReject(record, settled) ==
  IF \E k \in DOMAIN settled : settled[k].status = "rejected"
    THEN [record EXCEPT !.status = "failed"]
  ELSE
  LET ssl        == ValueOr(settled.ssl, getDefaultSSL)
      domainInfo == ValueOr(settled.domain, getDefaultDomain)
      ipInfo     == ValueOr(settled.ip, getDefaultIP)
      threats    == ValueOr(settled.threat, getDefaultThreats)
      safetyScore == calculateSafetyScore(ssl, domainInfo, threats, record.url)
  IN  [record EXCEPT !.status = "completed",
                     !.filled = TRUE,
                     !.safety_score = safetyScore,
                     !.is_safe = (safetyScore >= 70),
                     !.ssl_valid = ssl.isValid,
                     !.domain_age_days = domainInfo.ageDays,
                     !.ip_address = ipInfo.address,
                     !.threat_categories = threats.categories,
                     !.ml_confidence = threats.confidence]

\* The row performScan writes from the settled lookups.
CompletedRecord(record, settled) ==
  LET ssl        == ValueOr(settled.ssl, getDefaultSSL)
      domainInfo == ValueOr(settled.domain, getDefaultDomain)
      ipInfo     == ValueOr(settled.ip, getDefaultIP)
      threats    == ValueOr(settled.threat, getDefaultThreats)
      safetyScore == calculateSafetyScore(ssl, domainInfo, threats, record.url)
  IN  [record EXCEPT !.status = "completed",
                     !.filled = TRUE,
                     !.safety_score = safetyScore,
                     !.is_safe = (safetyScore >= 70),
                     !.ssl_valid = ssl.isValid,
                     !.domain_age_days = domainInfo.ageDays,
                     !.ip_address = ipInfo.address,
                     !.threat_categories = threats.categories,
                     !.ml_confidence = threats.confidence]

\* Mutant of MLOnlyThreats: a phishing prediction counts as suspicious only.
MLOnlyThreats_NoMalicious(mlPrediction) ==
  [categories |-> mlPrediction.predictedCategories,
   confidence |-> mlPrediction.confidence,
   maliciousCount |-> 0,
   suspiciousCount |->
      IF DblGreater(mlPrediction.threatProbability, Lit(50)) THEN 1 ELSE 0]

\* What checkThreatIntelligence returns when no VirusTotal key is
\* configured or VirusTotal answers with an error: the ML prediction alone.
MLOnlyThreats(mlPrediction) ==
  [categories |-> mlPrediction.predictedCategories,
   confidence |-> mlPrediction.confidence,
   maliciousCount |-> IF mlPrediction.isPhishing THEN 1 ELSE 0,
   suspiciousCount |->
      IF DblGreater(mlPrediction.threatProbability, Lit(50)) THEN 1 ELSE 0]

\* n / 10 for the detection counts of a VirusTotal report.
Tenths == [n \in 0..20 |-> DblDiv(n, 10)]

\* What checkThreatIntelligence returns from a VirusTotal report with
\* last_analysis_stats stats and category flags.
VirusTotalThreats(mlPrediction, stats) ==
  [categories |->
        mlPrediction.predictedCategories
     \o Push(stats.malicious > 0, "malware")
     \o Push(stats.suspicious > 2, "phishing")
     \o Push(stats.phishing, "phishing")
     \o Push(stats.malware, "malware"),
   confidence |->
      DblHalf(DblAdd(mlPrediction.confidence,
                     DblMin(Tenths[stats.malicious + stats.suspicious],
                            Lit(100)))),
   maliciousCount |-> stats.malicious,
   suspiciousCount |-> stats.suspicious]

\* A VirusTotal report with detections.
VirusTotalStats ==
  { [malicious |-> 1, suspicious |-> 3, phishing |-> TRUE, malware |-> FALSE] }

\* What the threat lookup can settle to once the ML prediction is there:
\* the ML prediction alone, a VirusTotal report merged in, or the default of
\* the catch block (a raised fetch).
ThreatResults(mlPrediction) ==
  { MLOnlyThreats(mlPrediction), getDefaultThreats }
  \cup { VirusTotalThreats(mlPrediction, stats) : stats \in VirusTotalStats }

\* The URLs submitted for a scan: one with a keyword, and a string that is
\* not a URL.
ScanUrls ==
  { Https \o <<"p", ".", "c", "/", "l", "o", "g", "i", "n">>,
    <<"p", ".", "c">> }

\* maxAttempts of pollScanResults.
maxAttempts == 30

\* performScan not started; settled holds the array of Promise.allSettled
\* once it has resolved.
NotStarted ==
  [pc |-> "none",
   settled |-> [ssl |-> Rejected, domain |-> Rejected, ip |-> Rejected,
                threat |-> Rejected]]

\* The client of a scan: the state of its polling chain, the attempts made,
\* and the status it last read (history: at its last attempt or when it
\* went away).
NoClient == [state |-> "idle", attempts |-> 0, left |-> "none"]

(***************************************************************************)
(* The zero-trust validator (src/services/zeroTrust.ts).  Wallet and IP    *)
(* addresses are atomic strings, "" standing for an absent one; origins    *)
(* and URLs are sequences of characters.                                   *)
(***************************************************************************)
\* window.location.origin of the page.
WindowOrigin == Https \o <<"a", "p", "p">>

allowedOrigins ==
  { WindowOrigin,
    Http \o <<"l", "o", "c", "a", "l", "h", "o", "s", "t", ":", "5", "1", "7", "3">>,
    Http \o <<"l", "o", "c", "a", "l", "h", "o", "s", "t", ":", "3", "0", "0", "0">> }

validateOrigin(requestData) ==
  /\ requestData.origin # <<>>
  /\ \E allowed \in allowedOrigins : startsWith(requestData.origin, allowed)

\* requestData.walletAddress || requestData.ipAddress || 'anonymous'
Identifier(requestData) ==
  IF requestData.walletAddress # "" THEN requestData.walletAddress
  ELSE IF requestData.ipAddress # "" THEN requestData.ipAddress
  ELSE "anonymous"

maxRequestsPer5Min == 100

\* .eq('metadata->>identifier', identifier): the rows whose metadata has a
\* key identifier of that value; for a row without the key the text is
\* NULL and the comparison is not true.
IdentifierMatches(row, identifier) ==
  /\ "identifier" \in DOMAIN row.metadata
  /\ row.metadata["identifier"] = identifier

\* data.length of the select of validateRateLimit on table.  The
\* validations of a behaviour all fall within five minutes, so the filter
\* .gte('created_at', fiveMinutesAgo) keeps every row.
requestCount(identifier, table) ==
  LET matching == { row \in BagToSet(table) : IdentifierMatches(row, identifier) }
  IN  BagCardinality([row \in matching |-> CopiesIn(row, table)])

\* validateRateLimit: a failed select counts as within the limit.
validateRateLimit(requestData, table, select) ==
  IF select = "error" THEN TRUE
  ELSE requestCount(Identifier(requestData), table) < maxRequestsPer5Min

NoPayload == [url |-> <<>>, none |-> TRUE]
Payload(url) == [url |-> url, none |-> FALSE]

\* JSON.stringify({ url }) for a url of characters that need no escape.
Stringify(payload) == <<"{", "\"", "u", "r", "l", "\"", ":", "\"">> \o payload.url \o <<"\"", "}">>

IsWord(c) == IsLower(c) \/ IsUpper(c) \/ c \in Digits \/ c = "_"

At(str, i, sub) == i + Len(sub) - 1 <= Len(str) /\ SubSeq(str, i, i + Len(sub) - 1) = sub

\* /<script[^>]*>[\s\S]*?<\/script>/gi.test(str), str in lower case
ScriptTest(str) ==
  \E i \in { n \in 1..Len(str) : At(str, n, <<"<", "s", "c", "r", "i", "p", "t">>) } :
  \E j \in (i + 7)..Len(str) :
    /\ str[j] = ">"
    /\ \A k \in (i + 7)..(j - 1) : str[k] # ">"
    /\ includes(SubSeq(str, j + 1, Len(str)), <<"<", "/", "s", "c", "r", "i", "p", "t", ">">>)

\* /on\w+\s*=/gi.test(str), str in lower case
OnHandlerTest(str) ==
  \E i \in { n \in 1..Len(str) : At(str, n, <<"o", "n">>) } :
  \E j \in (i + 2)..Len(str) : \E k \in (j + 1)..Len(str) :
    /\ \A m \in (i + 2)..j : IsWord(str[m])
    /\ \A m \in (j + 1)..(k - 1) : str[m] = " "
    /\ str[k] = "="

\* suspiciousPatterns.some(pattern => pattern.test(payloadStr)); the
\* patterns are case-insensitive.
SuspiciousPayload(payloadStr) ==
  \E lower \in {SubSeq(toLowerCase(payloadStr), 1, Len(payloadStr))} :
    \/ ScriptTest(lower)
    \/ includes(lower, <<"j", "a", "v", "a", "s", "c", "r", "i", "p", "t", ":">>)
    \/ OnHandlerTest(lower)
    \/ includes(lower, <<"<", "i", "f", "r", "a", "m", "e">>)
    \/ includes(lower, <<"e", "v", "a", "l", "(">>)
    \/ includes(lower, <<"d", "o", "c", "u", "m", "e", "n", "t", ".", "c", "o", "o", "k", "i", "e">>)

validatePayload(requestData) ==
  IF requestData.payload.none THEN TRUE
  ELSE IF Len(Stringify(requestData.payload)) > 100000 THEN FALSE
  ELSE ~SuspiciousPayload(Stringify(requestData.payload))

\* maxTimeDiff of validateTimestamp, in milliseconds.
maxTimeDiff == 5 * 60 * 1000

\* validateTimestamp: requestData.timeDiff is Math.abs(currentTime -
\* requestTime), -1 standing for a request without a timestamp.
validateTimestamp(requestData) ==
  IF requestData.timeDiff = -1 THEN TRUE
  ELSE requestData.timeDiff <= maxTimeDiff

\* validateScanRequest: the request data built for a scan of url.
validateScanRequest(url, walletAddress) ==
  [payload |-> Payload(url), walletAddress |-> walletAddress,
   origin |-> WindowOrigin, timeDiff |-> 0, ipAddress |-> "client-side"]

\* validateRequest: the four checks, their conjunction and the metadata
\* logged (user_agent, the same in every request, is left out).
validateRequest(requestData, table, select) ==
  LET validations == <<validateOrigin(requestData),
                       validateRateLimit(requestData, table, select),
                       validatePayload(requestData),
                       validateTimestamp(requestData)>>
  IN  [isValid |-> \A k \in 1..4 : validations[k],
       metadata |-> [origin_valid |-> validations[1],
                     rate_limit_valid |-> validations[2],
                     payload_valid |-> validations[3],
                     timestamp_valid |-> validations[4],
                     ip_address |-> IF requestData.ipAddress # ""
                                      THEN requestData.ipAddress ELSE "unknown"]]

\* logValidation: the row inserted.
ValidationRow(validationType, result) ==
  [validation_type |-> validationType, validation_result |-> result.isValid,
   metadata |-> result.metadata]

\* The identifiers of the requests made.
Identifiers == {"0xA", "client-side", "anonymous"}

\* No validation made yet; made counts, per identifier, the validations
\* logged for requests of that identifier (history).
NoValidation ==
  [last |-> [none |-> TRUE],
   made |-> [i \in Identifiers |-> 0]]

(***************************************************************************)
(* The ScanSection component (handleScan, pollScanResults).                *)
(***************************************************************************)
\* Scans submitted through the component: at most MaxSubmits of them.
MaxSubmits == 2

\* The URLs typed, as normalizeURL leaves them; validateURL accepts each.
ClientUrls ==
  { Https \o <<"p", ".", "c">>,
    Https \o <<"p", ".", "c", "/", "o", "n", "l", "i", "n", "e", "=", "1">> }

\* Web3AuthService.getCurrentUser()?.walletAddress: "" for no user.
Wallets == {"", "0xA"}

\* The component's state: isScanning, scanResult (0 for null, else the scan
\* whose result is held), error ("" for null), and the number of scans
\* submitted so far (history).
NoScan == [isScanning |-> FALSE, scanResult |-> 0, error |-> "", submitted |-> 0]

\* One call of handleScan and the polling chain it starts: its position,
\* the url it sent, the attempts counter of pollScanResults and the status
\* requests awaiting their response.
NoChain == [state |-> "none", url |-> <<>>, attempts |-> 0, inflight |-> 0]

\* logThreatDetection: the row inserted in blockchain_logs for the result
\* of scan s.
ThreatDetected(s, url, result) ==
  [scan |-> s, log_type |-> "threat_detected", url |-> url,
   threat_score |-> result.safety_score, is_phishing |-> ~result.is_safe]

(***************************************************************************)
(* State.                                                                  *)
(***************************************************************************)
VARIABLES
  ml_patterns,      \* table ml_patterns
  blockchain_logs,  \* table blockchain_logs: the set of rows, a row carrying
                    \* the scan that wrote it in place of its generated id
  scan,             \* per scan: its position and the locals of
                    \* performMLClassification and updateMLPatterns
  ret,              \* per scan: what performMLClassification returned
  h_alone,          \* history: the scan started while no other scan was running
  h_interfered,     \* history: another scan wrote ml_patterns between this
                    \* scan's select and its write in updateMLPatterns
  h_store,          \* history: per scan, how each of its store calls ended
  url_scans,        \* table url_scans: per scan request its row, if inserted
  perform,          \* per scan request: position and locals of performScan
  client,           \* per scan request: the polling chain of the client
  ui,               \* the state of the ScanSection component
  chain,            \* ScanSection: per submitted scan, handleScan and poll
  zero_trust_validations,  \* table zero_trust_validations: a bag of rows
  zt,               \* the validator: what validateRequest returned last, and
                    \* history: the validations made for each identifier
  sf_input,         \* the safety scorer on its own: the arguments given
  sf_score,         \* the safety scorer on its own: the score computed
  sc_url,           \* the extractor on its own: the string given
  sc_features,      \* the scorer on its own: the feature set given
  sc_result         \* the scorer on its own: score and categories computed

vars == <<ml_patterns, blockchain_logs, scan, ret, h_alone, h_interfered,
          h_store, url_scans, perform, client, ui, chain,
          zero_trust_validations, zt, sf_input, sf_score,
          sc_url, sc_features, sc_result>>

scanVars == <<ml_patterns, blockchain_logs, scan, ret, h_alone, h_interfered,
              h_store>>
scoreVars == <<sc_url, sc_features, sc_result>>
recordVars == <<url_scans, perform, client>>
safetyVars == <<sf_input, sf_score>>
uiVars == <<ui, chain, zero_trust_validations, zt>>

NoResult == [isPhishing |-> FALSE, none |-> TRUE]

NoFeatures == Feat(0, 0, 0, 0, FALSE, FALSE, 0, 0, 0)

NoScore == [threatScore |-> -1]

\* How a call of the store ends: "ok"; "error", the client library returning
\* { data: null, error }; "throw", the awaited call raising.  "none": the call
\* was not made.
StoreOutcomes == {"ok", "error", "throw"}

NoCalls == [lookup |-> "none", select |-> "none", write |-> "none", log |-> "none"]

\* The outcomes of a store call of a scan of domain: the client-side
\* classifier parses the host again inside the try block of each of its two
\* store functions, so for a string with no host the call raises before the
\* store is reached.
CallOutcomes(domain, outcomes) == IF domain = <<>> THEN {"throw"} ELSE outcomes

\* Mutant of HistoricalLookup: the rows matching are returned however the
\* call ended.
HistoricalLookup_Always(outcome, domain, table) ==
  checkHistoricalPatterns(domain, table)

\* checkHistoricalPatterns with the outcome of its store call: data is null
\* after an error, and a raised error is caught and null returned.
HistoricalLookup(outcome, domain, table) ==
  IF outcome = "ok" THEN checkHistoricalPatterns(domain, table) ELSE {NoRow}

\* The assessment of the catch block of performMLClassification.
CatchAssessment ==
  [isPhishing |-> FALSE, confidence |-> Lit(50), threatProbability |-> DblZero,
   predictedCategories |-> <<>>]

\* Mutant of Assessment: an error raised in updateMLPatterns reaches the
\* catch block of performMLClassification.
Assessment_Uncaught(sc, raised) ==
  IF raised THEN CatchAssessment
  ELSE [isPhishing |-> IsPhishing(sc.adjustedProbability),
        confidence |-> sc.confidence,
        threatProbability |-> sc.adjustedProbability,
        predictedCategories |-> sc.predictedCategories]

\* Mutant of Assessment: an error raised in updateMLPatterns leaves
\* performMLClassification without a result.
Assessment_Raised(sc, raised) ==
  IF raised THEN [isPhishing |-> FALSE, none |-> TRUE]
  ELSE [isPhishing |-> IsPhishing(sc.adjustedProbability),
        confidence |-> sc.confidence,
        threatProbability |-> sc.adjustedProbability,
        predictedCategories |-> sc.predictedCategories]

\* What performMLClassification returns from the locals sc of a scan;
\* raised: a store call of updateMLPatterns raised, which updateMLPatterns
\* catches and logs itself.
Assessment(sc, raised) ==
  [isPhishing |-> IsPhishing(sc.adjustedProbability),
   confidence |-> sc.confidence,
   threatProbability |-> sc.adjustedProbability,
   predictedCategories |-> sc.predictedCategories]

IdleScan ==
  [pc |-> "idle", domain |-> <<>>, features |-> NoFeatures,
   threatProbability |-> DblZero, historicalPattern |-> NoRow,
   adjustedProbability |-> DblZero, confidence |-> DblZero,
   predictedCategories |-> <<>>, existing |-> NoRow]

InitScans ==
  /\ ml_patterns = <<>>
  /\ blockchain_logs = {}
  /\ scan = [s \in Scans |-> IdleScan]
  /\ ret = [s \in Scans |-> NoResult]
  /\ h_alone = [s \in Scans |-> FALSE]
  /\ h_interfered = [s \in Scans |-> FALSE]
  /\ h_store = [s \in Scans |-> NoCalls]
  /\ url_scans = [s \in Scans |-> NoRecord]
  /\ perform = [s \in Scans |-> NotStarted]
  /\ client = [s \in Scans |-> NoClient]
  /\ ui = NoScan
  /\ chain = [s \in Scans |-> NoChain]
  /\ zero_trust_validations = EmptyBag
  /\ zt = NoValidation

Init ==
  /\ InitScans
  /\ sf_input = NoSafetyInput
  /\ sf_score = NoSafetyScore
  /\ sc_url = <<>>
  /\ sc_features = NoFeatures
  /\ sc_result = NoScore

Running(s) == scan[s].pc \notin {"idle", "done"}

\* performMLClassification up to the call of updateMLPatterns: features,
\* score, categories, the historical lookup and the blend, for a request of
\* the set inputs, the lookup ending in one of outcomes.  In
\* ClassifyOutcome scans are numbered in the order they start.
ClassifyCall(s, inputs, outcomes) ==
  /\ scan[s].pc = "idle"
  /\ \E in \in inputs :
     \E out \in CallOutcomes(in.domain, outcomes) :
     \E historicalPattern \in HistoricalLookup(out, in.domain, ml_patterns) :
       LET threatScore == calculateMLThreatScore(in.features)
           threatProbability == Hundredths[threatScore]
       IN  /\ scan' = [scan EXCEPT ![s] =
                [pc |-> "select",
                 domain |-> in.domain,
                 features |-> in.features,
                 threatProbability |-> threatProbability,
                 historicalPattern |-> historicalPattern,
                 adjustedProbability |->
                    AdjustedProbability(threatProbability, historicalPattern),
                 confidence |-> Confidence(historicalPattern),
                 predictedCategories |->
                    predictedCategories(in.features) \o KnownPattern(historicalPattern),
                 existing |-> NoRow]]
           /\ h_store' = [h_store EXCEPT ![s] = [NoCalls EXCEPT !.lookup = out]]
  /\ h_alone' = [h_alone EXCEPT ![s] = \A t \in Scans : ~Running(t)]
  /\ UNCHANGED <<ml_patterns, blockchain_logs, ret, h_interfered, scoreVars, recordVars, safetyVars, uiVars>>

ClassifyOutcome(s, inputs, outcomes) ==
  /\ \A t \in Scans : t < s => scan[t].pc # "idle"
  /\ ClassifyCall(s, inputs, outcomes)

\* The same with a store that answers every call.
Classify(s, inputs) == ClassifyOutcome(s, inputs, {"ok"})

\* updateMLPatterns: the select of the existing row, ending in one of
\* outcomes.  After an error existing is null, as when there is no row; a
\* raised error ends updateMLPatterns in its catch block, and
\* performMLClassification returns its assessment.
UpsertSelectOutcome(s, outcomes) ==
  /\ scan[s].pc = "select"
  /\ \E out \in CallOutcomes(scan[s].domain, outcomes) :
       /\ h_store' = [h_store EXCEPT ![s].select = out]
       /\ IF out = "throw"
            THEN /\ scan' = [scan EXCEPT ![s].pc = "done"]
                 /\ ret' = [ret EXCEPT ![s] = Assessment(scan[s], TRUE)]
            ELSE /\ scan' = [scan EXCEPT
                       ![s].pc = "write",
                       ![s].existing = IF out = "ok"
                                         THEN maybeSingle(scan[s].domain, ml_patterns)
                                         ELSE NoRow]
                 /\ ret' = ret
  /\ h_interfered' = [h_interfered EXCEPT ![s] = FALSE]
  /\ UNCHANGED <<ml_patterns, blockchain_logs, h_alone, scoreVars, recordVars, safetyVars, uiVars>>

UpsertSelect(s) == UpsertSelectOutcome(s, {"ok"})

\* updateMLPatterns: the update of the existing row, or the insert; the
\* pattern_learned log row; then performMLClassification returns its
\* assessment.  A write that ends in an error writes nothing; one that raises
\* also skips the log row.
UpsertWriteOutcome(s, outcomes) ==
  /\ scan[s].pc = "write"
  /\ \E write \in outcomes :
     \E log \in (IF write = "throw" THEN {"none"} ELSE outcomes) :
       /\ h_store' = [h_store EXCEPT ![s].write = write, ![s].log = log]
       /\ LET existing == scan[s].existing
          IN  ml_patterns' =
                IF write # "ok" THEN ml_patterns
                ELSE IF existing # NoRow
                  THEN [ml_patterns EXCEPT ![existing.id] =
                          UpdatedRow(@, existing, scan[s].features,
                                     scan[s].adjustedProbability)]
                  ELSE Append(ml_patterns,
                              InsertedRow(Len(ml_patterns) + 1, scan[s].domain,
                                          scan[s].features, scan[s].adjustedProbability))
       /\ blockchain_logs' =
            IF log # "ok" THEN blockchain_logs
            ELSE blockchain_logs \cup
              { [scan |-> s, log_type |-> "pattern_learned", url |-> scan[s].domain,
                 pattern_type |-> PatternType(scan[s].adjustedProbability),
                 threat_probability |-> scan[s].adjustedProbability] }
       /\ ret' = [ret EXCEPT ![s] =
                    Assessment(scan[s], write = "throw" \/ log = "throw")]
       /\ h_interfered' = [t \in Scans |->
                             IF t # s /\ scan[t].pc = "write" /\ write = "ok"
                               THEN TRUE ELSE h_interfered[t]]
  /\ scan' = [scan EXCEPT ![s].pc = "done"]
  /\ UNCHANGED <<h_alone, scoreVars, recordVars, safetyVars, uiVars>>

UpsertWrite(s) == UpsertWriteOutcome(s, {"ok"})

\* Scans of any number overlapping.
Next ==
  \E s \in Scans :
    \/ Classify(s, ScanInputs)
    \/ UpsertSelect(s)
    \/ UpsertWrite(s)

Spec == Init /\ [][Next]_vars

\* Scans one after the other: a scan starts when none is running.
ClassifyAlone(s) ==
  /\ \A t \in Scans : ~Running(t)
  /\ Classify(s, SeqInputs)

NextSeq ==
  \E s \in Scans :
    \/ ClassifyAlone(s)
    \/ UpsertSelect(s)
    \/ UpsertWrite(s)

SpecSeq == Init /\ [][NextSeq]_vars

\* The requests of SeqInputs and one of LongHost, whose name contains that of
\* ShortHost, with raw score 80.
SubInputs ==
  SeqInputs \cup { Request(LongHost, Feat(80, 3, 9, 2, TRUE, TRUE, 380, 0, 0)) }

\* Scans one after the other, of hosts one of whose names contains the
\* other's, either of which may be classified as phishing.
ClassifySub(s) ==
  /\ \A t \in Scans : ~Running(t)
  /\ Classify(s, SubInputs)

NextSub ==
  \E s \in Scans :
    \/ ClassifySub(s)
    \/ UpsertSelect(s)
    \/ UpsertWrite(s)

SpecSub == Init /\ [][NextSub]_vars

\* The request of the classifier for the string url: its host, none when the
\* string does not parse, and its features.
UrlRequest(url) ==
  Request(IF PrefixedURL(url).ok THEN PrefixedURL(url).hostname ELSE <<>>,
          extractMLFeatures(url))

\* The requests of scans whose store calls may fail: raw scores 30 and 80
\* for ShortHost, and the string "a b.c.d", which has no host.
FailInputs ==
  { Request(ShortHost, Feat(80, 0, 0, 6, FALSE, FALSE, 380, 0, 0)),
    Request(ShortHost, Feat(80, 3, 9, 2, TRUE, TRUE, 380, 0, 0)),
    UrlRequest(<<"a", " ", "b", ".", "c", ".", "d">>) }

\* Scans one after the other, each store call ending in any way.
ClassifyFail(s) ==
  /\ s <= MaxFailScans
  /\ \A t \in Scans : ~Running(t)
  /\ ClassifyOutcome(s, FailInputs, StoreOutcomes)

UpsertSelectFail(s) == UpsertSelectOutcome(s, StoreOutcomes)

UpsertWriteFail(s) == UpsertWriteOutcome(s, StoreOutcomes)

NextFail ==
  \E s \in Scans :
    \/ ClassifyFail(s)
    \/ UpsertSelectFail(s)
    \/ UpsertWriteFail(s)

SpecFail == Init /\ [][NextFail]_vars

\* The scorer and the category rules applied to a feature set on their own.
InitScore ==
  /\ InitScans
  /\ sf_input = NoSafetyInput
  /\ sf_score = NoSafetyScore
  /\ sc_url = <<>>
  /\ sc_features \in ScoreInputs
  /\ sc_result = NoScore

Score ==
  /\ sc_result = NoScore
  /\ sc_result' = [threatScore |-> calculateMLThreatScore(sc_features),
                   predictedCategories |-> predictedCategories(sc_features)]
  /\ UNCHANGED <<sc_url, sc_features, scanVars, recordVars, safetyVars, uiVars>>

NextScore == Score

SpecScore == InitScore /\ [][NextScore]_vars

\* The extractor applied to a string on its own, then the scorer and the
\* category rules applied to the features extracted.
InitExtract ==
  /\ InitScans
  /\ sf_input = NoSafetyInput
  /\ sf_score = NoSafetyScore
  /\ sc_url \in UrlInputs
  /\ sc_features = NoFeatures
  /\ sc_result = NoScore

Extract ==
  /\ sc_features = NoFeatures
  /\ sc_features' = extractMLFeatures(sc_url)
  /\ UNCHANGED <<sc_url, sc_result, scanVars, recordVars, safetyVars, uiVars>>

ScoreExtracted ==
  /\ sc_features # NoFeatures
  /\ Score

NextExtract == Extract \/ ScoreExtracted

SpecExtract == InitExtract /\ [][NextExtract]_vars

\* calculateSafetyScore applied on its own to every combination of lookup
\* results and URL.
InitSafety ==
  /\ InitScans
  /\ sf_input \in SafetyInputs
  /\ sf_score = NoSafetyScore
  /\ sc_url = <<>>
  /\ sc_features = NoFeatures
  /\ sc_result = NoScore

Safety ==
  /\ ~sf_score.done
  /\ sf_score' = [done |-> TRUE,
                  value |-> calculateSafetyScore(sf_input.ssl, sf_input.domain,
                                                 sf_input.threats, sf_input.url)]
  /\ UNCHANGED <<sf_input, scanVars, recordVars, scoreVars, uiVars>>

NextSafety == Safety

SpecSafety == InitSafety /\ [][NextSafety]_vars

\* Scan requests through the handler: at most MaxRequests of them, one after
\* the other, each polled by the client that made it.
MaxRequests == 1

\* What the three lookups other than the threat lookup settle to when they
\* are fulfilled with a result of their service.
LookupSsl == [isValid |-> TRUE, issuer |-> "CA", grade |-> "A"]
LookupDomain == [ageDays |-> 400]
LookupIP == [address |-> "1.2.3.4", country |-> "US"]

\* The arrays Promise.allSettled can resolve to: each lookup fulfilled or
\* rejected, the threat lookup fulfilled with any of its results for the
\* ML prediction.
SettledResults(mlPrediction) ==
  [ssl : {Fulfilled(LookupSsl), Rejected},
   domain : {Fulfilled(LookupDomain), Rejected},
   ip : {Fulfilled(LookupIP), Rejected},
   threat : {Fulfilled(t) : t \in ThreatResults(mlPrediction)} \cup {Rejected}]

\* The scan is over for the backend: performScan returned, or the handler
\* answered 500 and never started it.
Over(s) == perform[s].pc \in {"done", "refused"}

\* The Deno.serve handler for a request with a url: the pending record is
\* inserted, performScan is started and not awaited, and the record is
\* returned, on which the client starts polling; if the insert fails the
\* handler answers 500 and scanUrl raises in the client.
Serve(s) ==
  /\ s <= MaxRequests
  /\ perform[s].pc = "none"
  /\ \A t \in Scans : t < s => Over(t) /\ client[t].state # "polling"
  /\ \E url \in ScanUrls :
     \E insert \in {"ok", "error"} :
       IF insert = "ok"
         THEN /\ url_scans' = [url_scans EXCEPT ![s] = PendingRecord(url)]
              /\ perform' = [perform EXCEPT ![s].pc = "parse"]
              /\ client' = [client EXCEPT ![s].state = "polling"]
         ELSE /\ perform' = [perform EXCEPT ![s].pc = "refused"]
              /\ client' = [client EXCEPT ![s].state = "error"]
              /\ UNCHANGED url_scans
  /\ UNCHANGED <<scanVars, scoreVars, safetyVars, uiVars>>

\* performScan: new URL(url); when it raises, the catch block marks the
\* record failed.
ParseURL(s) ==
  /\ perform[s].pc = "parse"
  /\ IF NewURL(url_scans[s].url).ok
       THEN /\ perform' = [perform EXCEPT ![s].pc = "lookups"]
            /\ UNCHANGED url_scans
       ELSE /\ perform' = [perform EXCEPT ![s].pc = "done"]
            /\ url_scans' = [url_scans EXCEPT ![s].status = "failed"]
  /\ UNCHANGED <<client, scanVars, scoreVars, safetyVars, uiVars>>

\* checkThreatIntelligence: performMLClassification(url, domain, supabase)
\* with the host of the parsed URL.
ThreatLookup(s) ==
  /\ perform[s].pc = "lookups"
  /\ ClassifyCall(s, { Request(NewURL(url_scans[s].url).hostname,
                               extractMLFeatures(url_scans[s].url)) }, {"ok"})

\* await Promise.allSettled([...]): every lookup has settled, the threat
\* lookup after its ML classification returned.
Settle(s) ==
  /\ perform[s].pc = "lookups"
  /\ scan[s].pc = "done"
  /\ \E settled \in SettledResults(ret[s]) :
       perform' = [perform EXCEPT ![s] = [pc |-> "update", settled |-> settled]]
  /\ UNCHANGED <<url_scans, client, scanVars, scoreVars, safetyVars, uiVars>>

\* performScan: defaults for the rejected lookups, the safety score, and
\* the update of the record to completed.
UpdateRecord(s) ==
  /\ perform[s].pc = "update"
  /\ url_scans' = [url_scans EXCEPT
                     ![s] = CompletedRecord(url_scans[s], perform[s].settled)]
  /\ perform' = [perform EXCEPT ![s].pc = "done"]
  /\ UNCHANGED <<client, scanVars, scoreVars, safetyVars, uiVars>>

\* poll of pollScanResults: one attempt.  The status is read; completed and
\* failed end the chain, as does a raised getScanStatus; otherwise the next
\* attempt is scheduled unless this was attempt maxAttempts.
poll(s) ==
  /\ client[s].state = "polling"
  /\ \E getScanStatus \in {"ok", "throw"} :
       LET attempts == client[s].attempts + 1
           status == url_scans[s].status
       IN  client' = [client EXCEPT
             ![s].attempts = attempts,
             ![s].state =
                IF getScanStatus = "throw" THEN "error"
                ELSE IF status = "completed" THEN "shown"
                ELSE IF status = "failed" THEN "failed"
                ELSE IF attempts < maxAttempts THEN "polling"
                ELSE "timeout",
             ![s].left = status]
  /\ UNCHANGED <<url_scans, perform, scanVars, scoreVars, safetyVars, uiVars>>

\* Mutant of ClientStop: the client going away cancels the scan, which is
\* marked failed and whose backend is stopped.
ClientStop_Cancels(s) ==
  /\ client[s].state = "polling"
  /\ client' = [client EXCEPT ![s].state = "stopped",
                              ![s].left = url_scans[s].status]
  /\ IF url_scans[s].status = "pending"
       THEN /\ url_scans' = [url_scans EXCEPT ![s].status = "failed"]
            /\ perform' = [perform EXCEPT ![s].pc = "done"]
       ELSE UNCHANGED <<url_scans, perform>>
  /\ UNCHANGED <<scanVars, scoreVars, safetyVars, uiVars>>

\* The client goes away while the next attempt is scheduled: the timer
\* never fires, and nothing is sent to the backend.
ClientStop(s) ==
  /\ client[s].state = "polling"
  /\ client' = [client EXCEPT ![s].state = "stopped",
                              ![s].left = url_scans[s].status]
  /\ UNCHANGED <<url_scans, perform, scanVars, scoreVars, safetyVars, uiVars>>

\* The steps of the backend for scan s.
Backend(s) ==
  \/ ParseURL(s)
  \/ ThreatLookup(s)
  \/ UpsertSelect(s)
  \/ UpsertWrite(s)
  \/ Settle(s)
  \/ UpdateRecord(s)

NextScan ==
  \E s \in Scans :
    \/ Serve(s)
    \/ ParseURL(s)
    \/ ThreatLookup(s)
    \/ UpsertSelect(s)
    \/ UpsertWrite(s)
    \/ Settle(s)
    \/ UpdateRecord(s)
    \/ poll(s)
    \/ ClientStop(s)

SpecScan == Init /\ [][NextScan]_vars

\* The same with the backend's steps taken whenever they stay possible:
\* the runtime resumes performScan after each await and every lookup
\* settles.  Nothing is assumed of the client.
SpecScanLive ==
  /\ Init
  /\ [][NextScan]_vars
  /\ \A s \in Scans : WF_vars(Backend(s))

\* The validations made so far, of every identifier.
Validations == zt.made["0xA"] + zt.made["client-side"] + zt.made["anonymous"]

\* validateRequest with its log: the result for requestData, the row
\* inserted by logValidation, and the result kept with the identifier and
\* the number of validations logged for it before this one.
Validated(requestData, validationType, select) ==
  \E result \in {validateRequest(requestData, zero_trust_validations, select)} :
    /\ zero_trust_validations' =
         zero_trust_validations (+) SetToBag({ValidationRow(validationType, result)})
    /\ zt' = [last |-> [none |-> FALSE,
                        identifier |-> Identifier(requestData),
                        before |-> zt.made[Identifier(requestData)],
                        select |-> select,
                        isValid |-> result.isValid,
                        metadata |-> result.metadata],
              made |-> [zt.made EXCEPT ![Identifier(requestData)] = @ + 1]]

\* handleScan from the click to await urlScanner.scanUrl: the button and
\* the input are disabled while isScanning; the state is reset, the request
\* validated (a failed validation ends the call), and the scan request sent.
handleScan(s) ==
  /\ ~ui.isScanning
  /\ s = ui.submitted + 1
  /\ s <= MaxSubmits
  /\ \E url \in ClientUrls : \E walletAddress \in Wallets :
       /\ Validated(validateScanRequest(url, walletAddress), "scan_request", "ok")
       /\ IF zt'.last.isValid
            THEN /\ ui' = [isScanning |-> TRUE, scanResult |-> 0, error |-> "",
                           submitted |-> s]
                 /\ chain' = [chain EXCEPT ![s].state = "submitted", ![s].url = url]
            ELSE /\ ui' = [isScanning |-> FALSE, scanResult |-> 0,
                           error |-> "Security validation failed. Please try again.",
                           submitted |-> s]
                 /\ chain' = [chain EXCEPT ![s].state = "invalid", ![s].url = url]
  /\ UNCHANGED <<scanVars, recordVars, scoreVars, safetyVars>>

\* The rest of handleScan, from the answer of the scan request.  The
\* handler inserts the pending record and returns it, or answers 500 when
\* the insert fails, on which scanUrl raises.  For a pending record
\* pollScanResults is awaited: it calls poll, which runs to its first await
\* with the first status request sent, and returns; any other record is
\* shown, and logged as a threat when its score is below 70.  The finally
\* block resets isScanning.
scanUrl(s) ==
  /\ chain[s].state = "submitted"
  /\ \E insert \in {"ok", "error"} :
       IF insert = "error"
         THEN /\ chain' = [chain EXCEPT ![s].state = "refused"]
              /\ ui' = [ui EXCEPT !.isScanning = FALSE,
                                  !.error = "Failed to initiate scan"]
              /\ UNCHANGED <<url_scans, blockchain_logs>>
         ELSE \E result \in {PendingRecord(chain[s].url)} :
              /\ url_scans' = [url_scans EXCEPT ![s] = result]
              /\ IF result.status = "pending"
                   THEN /\ chain' = [chain EXCEPT ![s].state = "request",
                                                  ![s].attempts = 1,
                                                  ![s].inflight = 1]
                        /\ ui' = [ui EXCEPT !.isScanning = FALSE]
                        /\ UNCHANGED blockchain_logs
                   ELSE /\ chain' = [chain EXCEPT ![s].state = "shown"]
                        /\ ui' = [ui EXCEPT !.isScanning = FALSE, !.scanResult = s]
                        /\ blockchain_logs' =
                             IF result.safety_score < 70
                               THEN blockchain_logs \cup
                                      {ThreatDetected(s, chain[s].url, result)}
                               ELSE blockchain_logs
  /\ UNCHANGED <<ml_patterns, scan, ret, h_alone, h_interfered, h_store,
                 perform, client, zero_trust_validations, zt, scoreVars, safetyVars>>

\* What the lookups of a scan made through the component settle to: every
\* one rejected, or all but the threat lookup fulfilled.
ClientSettled ==
  { [ssl |-> Rejected, domain |-> Rejected, ip |-> Rejected, threat |-> Rejected],
    [ssl |-> Fulfilled(LookupSsl), domain |-> Fulfilled(LookupDomain),
     ip |-> Fulfilled(LookupIP), threat |-> Rejected] }

\* performScan as the component sees it: the update of the record to
\* completed, with the lookups settled to one of ClientSettled.
performScan(s) ==
  /\ url_scans[s].status = "pending"
  /\ \E settled \in ClientSettled :
       url_scans' = [url_scans EXCEPT ![s] = CompletedRecord(url_scans[s], settled)]
  /\ UNCHANGED <<perform, client, scanVars, scoreVars, safetyVars, uiVars>>

\* Mutant of pollResponse: the next attempt is scheduled whatever the
\* number of attempts made.
pollResponse_NoLimit(s) ==
  /\ chain[s].state = "request"
  /\ \E getScanStatus \in {"ok", "throw"} :
       LET status == url_scans[s].status
       IN  IF getScanStatus = "throw"
             THEN /\ chain' = [chain EXCEPT ![s].state = "error", ![s].inflight = @ - 1]
                  /\ ui' = [ui EXCEPT
                              !.error = "Failed to get scan results. Please try again."]
           ELSE IF status = "completed"
             THEN /\ chain' = [chain EXCEPT ![s].state = "shown", ![s].inflight = @ - 1]
                  /\ ui' = [ui EXCEPT !.scanResult = s]
           ELSE IF status = "failed"
             THEN /\ chain' = [chain EXCEPT ![s].state = "failed", ![s].inflight = @ - 1]
                  /\ ui' = [ui EXCEPT !.error = "Scan failed. Please try again."]
           ELSE /\ chain' = [chain EXCEPT ![s].state = "scheduled",
                                          ![s].inflight = @ - 1]
                /\ UNCHANGED ui
  /\ UNCHANGED <<scanVars, recordVars, scoreVars, safetyVars,
                 zero_trust_validations, zt>>

\* poll from the answer of getScanStatus: a completed record is shown, a
\* failed one and a raised request are reported, and otherwise the next
\* attempt is scheduled unless maxAttempts were made, which is reported as
\* a timeout.
pollResponse(s) ==
  /\ chain[s].state = "request"
  /\ \E getScanStatus \in {"ok", "throw"} :
       LET status == url_scans[s].status
       IN  IF getScanStatus = "throw"
             THEN /\ chain' = [chain EXCEPT ![s].state = "error", ![s].inflight = @ - 1]
                  /\ ui' = [ui EXCEPT
                              !.error = "Failed to get scan results. Please try again."]
           ELSE IF status = "completed"
             THEN /\ chain' = [chain EXCEPT ![s].state = "shown", ![s].inflight = @ - 1]
                  /\ ui' = [ui EXCEPT !.scanResult = s]
           ELSE IF status = "failed"
             THEN /\ chain' = [chain EXCEPT ![s].state = "failed", ![s].inflight = @ - 1]
                  /\ ui' = [ui EXCEPT !.error = "Scan failed. Please try again."]
           ELSE IF chain[s].attempts < maxAttempts
             THEN /\ chain' = [chain EXCEPT ![s].state = "scheduled",
                                            ![s].inflight = @ - 1]
                  /\ UNCHANGED ui
           ELSE /\ chain' = [chain EXCEPT ![s].state = "timeout", ![s].inflight = @ - 1]
                /\ ui' = [ui EXCEPT !.error = "Scan timeout. Please try again."]
  /\ UNCHANGED <<scanVars, recordVars, scoreVars, safetyVars,
                 zero_trust_validations, zt>>

\* poll from the timer to await getScanStatus: attempts++ and the status
\* request sent.
pollRequest(s) ==
  /\ chain[s].state = "scheduled"
  /\ chain' = [chain EXCEPT ![s].state = "request",
                            ![s].attempts = @ + 1,
                            ![s].inflight = @ + 1]
  /\ UNCHANGED <<ui, zero_trust_validations, zt,
                 scanVars, recordVars, scoreVars, safetyVars>>

NextClient ==
  \E s \in Scans :
    \/ handleScan(s)
    \/ scanUrl(s)
    \/ performScan(s)
    \/ pollRequest(s)
    \/ pollResponse(s)

SpecClient == Init /\ [][NextClient]_vars

\* The scan from the return of performMLClassification on, no VirusTotal
\* key being configured: the predictions it can return for a blended
\* probability around 0.5 and beyond, with and without history.
MLProbabilities == { Lit(0), Lit(40), Lit(50), Hundredths[51], Lit(70), Lit(95) }

MLPredictions ==
  { Assessment([adjustedProbability |-> p, confidence |-> c,
                predictedCategories |-> <<>>], FALSE) :
      p \in MLProbabilities, c \in {Confidence(NoRow), Lit(95)} }

\* The arrays Promise.allSettled can resolve to without a VirusTotal key:
\* every lookup fulfilled with one of its results or rejected, the threat
\* lookup fulfilled with the ML prediction alone.
MLOnlySettled(mlPrediction) ==
  [ssl : {Fulfilled(r) : r \in SslResults} \cup {Rejected},
   domain : {Fulfilled(r) : r \in DomainResults} \cup {Rejected},
   ip : {Fulfilled(LookupIP), Rejected},
   threat : {Fulfilled(MLOnlyThreats(mlPrediction)), Rejected}]

\* Scan 1 waits for its lookups, its record pending and its ML
\* classification returned.
InitMLOnly ==
  /\ ml_patterns = <<>>
  /\ blockchain_logs = {}
  /\ scan = [s \in Scans |-> IdleScan]
  /\ ret \in { [s \in Scans |-> IF s = 1 THEN mlPrediction ELSE NoResult] :
                 mlPrediction \in MLPredictions }
  /\ h_alone = [s \in Scans |-> FALSE]
  /\ h_interfered = [s \in Scans |-> FALSE]
  /\ h_store = [s \in Scans |-> NoCalls]
  /\ url_scans \in { [s \in Scans |-> IF s = 1 THEN PendingRecord(url) ELSE NoRecord] :
                       url \in {PlainUrl, AllPatternsUrl} }
  /\ perform = [s \in Scans |-> IF s = 1 THEN [NotStarted EXCEPT !.pc = "lookups"]
                                 ELSE NotStarted]
  /\ client = [s \in Scans |-> NoClient]
  /\ ui = NoScan
  /\ chain = [s \in Scans |-> NoChain]
  /\ zero_trust_validations = EmptyBag
  /\ zt = NoValidation
  /\ sf_input = NoSafetyInput
  /\ sf_score = NoSafetyScore
  /\ sc_url = <<>>
  /\ sc_features = NoFeatures
  /\ sc_result = NoScore

\* await Promise.allSettled([...]) without a VirusTotal key.
SettleMLOnly(s) ==
  /\ perform[s].pc = "lookups"
  /\ \E settled \in MLOnlySettled(ret[s]) :
       perform' = [perform EXCEPT ![s] = [pc |-> "update", settled |-> settled]]
  /\ UNCHANGED <<url_scans, client, scanVars, scoreVars, safetyVars, uiVars>>

NextMLOnly ==
  \E s \in Scans :
    \/ SettleMLOnly(s)
    \/ UpdateRecord(s)

SpecMLOnly == InitMLOnly /\ [][NextMLOnly]_vars

\* Validations on their own, at most MaxValidations of them within five
\* minutes: scan requests of a user with a wallet, and of one without for a
\* URL whose payload is refused.
MaxValidations == 101

ValidateInputs ==
  { validateScanRequest(Https \o <<"p", ".", "c">>, "0xA"),
    validateScanRequest(Https \o <<"p", ".", "c", "/", "o", "n", "l", "i", "n", "e", "=", "1">>, "") }

Validate ==
  /\ Validations < MaxValidations
  /\ \E requestData \in ValidateInputs : \E select \in {"ok", "error"} :
       Validated(requestData, "scan_request", select)
  /\ UNCHANGED <<ui, chain, scanVars, recordVars, scoreVars, safetyVars>>

NextValidate == Validate

SpecValidate == Init /\ [][NextValidate]_vars

(***************************************************************************)
(* Claims.                                                                 *)
(***************************************************************************)
Domains == {ShortHost, LongHost}

\* The ids of the rows of ml_patterns keyed by domain d.
RowsOf(d) == { i \in 1..Len(ml_patterns) : ml_patterns[i].url_pattern = d }

\* The scans of domain d that have run their upsert.
Upserted(d) == { s \in Scans : scan[s].pc = "done" /\ scan[s].domain = d }

\* C1 as stated: an upsert of scan s for domain d with blended probability p,
\* run with no other write to the table between its select and its write,
\* leaves a row of d that existed with confidence c and count n at count
\* n + 1 and confidence (c + p) / 2, inserts a row (d, p, 1) when d had no
\* row, and changes no row of another domain.
C1_Post(s) ==
  LET d == scan[s].domain
      p == scan[s].adjustedProbability
      n == Len(ml_patterns)
  IN  /\ RowsOf(d) # {} =>
           \E i \in RowsOf(d) :
              /\ ml_patterns'[i].detection_count = ml_patterns[i].detection_count + 1
              /\ ml_patterns'[i].confidence_score =
                   DblHalf(DblAdd(ml_patterns[i].confidence_score, p))
      /\ RowsOf(d) = {} =>
           /\ Len(ml_patterns') = n + 1
           /\ ml_patterns'[n + 1].url_pattern = d
           /\ ml_patterns'[n + 1].detection_count = 1
           /\ ml_patterns'[n + 1].confidence_score = p
      /\ \A i \in 1..n :
           ml_patterns[i].url_pattern # d => ml_patterns'[i] = ml_patterns[i]

C1_UpsertContract ==
  [][\A s \in Scans : (UpsertWrite(s) /\ ~h_interfered[s]) => C1_Post(s)]_vars

\* C3 as stated: the table holds at most one row per domain in every
\* reachable state.
C3_UniqueDomain ==
  \A i, j \in 1..Len(ml_patterns) :
     ml_patterns[i].url_pattern = ml_patterns[j].url_pattern => i = j

\* C4 as stated: once n >= 1 scans of a domain have run their upsert, in any
\* interleaving, the domain's row exists and has detectionCount = n.
C4_CountIsScans ==
  \A d \in Domains :
     Upserted(d) # {} =>
       /\ RowsOf(d) # {}
       /\ \A i \in RowsOf(d) :
            ml_patterns[i].detection_count = Cardinality(Upserted(d))

\* C2: two scans of one domain, one after the other on an empty table.  A
\* first scan with raw probability 0.3 leaves the row (0.3, 1); a second
\* scan with raw probability 0.5 then returns 0.4 and leaves the row
\* (0.35, 2).
C2_TwoScans ==
  /\ ( /\ scan[1].pc = "done"
       /\ scan[1].threatProbability = Lit(30)
       /\ \A s \in Scans \ {1} : scan[s].pc = "idle" )
     => /\ Len(ml_patterns) = 1
        /\ ml_patterns[1].url_pattern = scan[1].domain
        /\ ml_patterns[1].confidence_score = Lit(30)
        /\ ml_patterns[1].detection_count = 1
  /\ ( /\ scan[1].pc = "done"
       /\ scan[1].threatProbability = Lit(30)
       /\ scan[2].pc = "done"
       /\ h_alone[2]
       /\ scan[2].domain = scan[1].domain
       /\ scan[2].threatProbability = Lit(50)
       /\ \A s \in Scans \ {1, 2} : scan[s].pc = "idle" )
     => /\ ret[2].threatProbability = Lit(40)
        /\ Len(ml_patterns) = 1
        /\ ml_patterns[1].url_pattern = scan[1].domain
        /\ ml_patterns[1].confidence_score = Lit(35)
        /\ ml_patterns[1].detection_count = 2

C2_Witness ==
  /\ scan[1].pc = "done"
  /\ scan[1].threatProbability = Lit(30)
  /\ scan[2].pc = "done"
  /\ h_alone[2]
  /\ scan[2].domain = scan[1].domain
  /\ scan[2].threatProbability = Lit(50)
  /\ \A s \in Scans \ {1, 2} : scan[s].pc = "idle"

\* The binary64 value next above x (x > 0).
DblSucc(x) ==
  IF x.lo + 1 < LoMod THEN [x EXCEPT !.lo = x.lo + 1]
  ELSE IF x.hi + 1 < HiMod THEN [e |-> x.e, hi |-> x.hi + 1, lo |-> 0]
  ELSE [e |-> x.e + 1, hi |-> HiMin, lo |-> 0]

Returned(s) == scan[s].pc = "done"

WithHistory(s) == Returned(s) /\ scan[s].historicalPattern # NoRow

\* The blending law of C5 for scan s, the example's result being value.
C5_Law(s, value) ==
  LET raw == scan[s].threatProbability
      h   == scan[s].historicalPattern
      base == predictedCategories(scan[s].features)
  IN  /\ ret[s].threatProbability = DblHalf(DblAdd(raw, h.confidence_score))
      /\ ret[s].confidence = Lit(90)
      /\ ret[s].predictedCategories =
           IF h.pattern_type = "phishing"
             THEN Append(base, "Known phishing pattern")
             ELSE base
      /\ (raw = Lit(80) /\ h.confidence_score = Lit(40))
           => ret[s].threatProbability = value

\* C5 as stated: with a historical record the returned threatProbability is
\* (raw + historical confidence) / 2 and confidence is 0.90, raw 0.8 with
\* history 0.4 giving 0.6; 'Known phishing pattern' is the last category
\* exactly when the record's type is phishing.
C5_Original == \A s \in Scans : WithHistory(s) => C5_Law(s, Lit(60))

\* C5 amended: as C5, the sum and the halving being the language's
\* arithmetic on doubles, in which raw 0.8 with history 0.4 gives
\* 0.6000000000000001, the value next above 0.6.
C5_Blend == \A s \in Scans : WithHistory(s) => C5_Law(s, DblSucc(Lit(60)))

C5_Witness ==
  \E s \in Scans :
     /\ WithHistory(s)
     /\ scan[s].threatProbability = Lit(80)
     /\ scan[s].historicalPattern.confidence_score = Lit(40)

\* C6: without a historical record the returned threatProbability is the raw
\* probability threatScore / 100 exactly, and confidence is 0.75.
C6_NoHistory ==
  \A s \in Scans :
     (Returned(s) /\ scan[s].historicalPattern = NoRow) =>
        /\ ret[s].threatProbability =
             DblDiv(calculateMLThreatScore(scan[s].features), 100)
        /\ ret[s].confidence = Lit(75)

C6_Witness ==
  \E s \in Scans :
     /\ Returned(s)
     /\ scan[s].historicalPattern = NoRow
     /\ ret[s].threatProbability = Lit(80)

\* C7: isPhishing is true exactly when the blended probability is greater
\* than 0.5; a blend of exactly 0.5 (raw 0.5 without history, raw 0.7 with
\* history 0.3) gives isPhishing = false.
C7_Threshold ==
  \A s \in Scans :
     Returned(s) =>
        LET raw == scan[s].threatProbability
            h   == scan[s].historicalPattern
        IN  /\ ret[s].isPhishing <=> DblGreater(ret[s].threatProbability, Lit(50))
            /\ ret[s].threatProbability = Lit(50) => ~ret[s].isPhishing
            /\ (h = NoRow /\ raw = Lit(50))
                 => ret[s].threatProbability = Lit(50) /\ ~ret[s].isPhishing
            /\ (h # NoRow /\ raw = Lit(70) /\ h.confidence_score = Lit(30))
                 => ret[s].threatProbability = Lit(50) /\ ~ret[s].isPhishing

C7_Witness ==
  \E s \in Scans :
     /\ WithHistory(s)
     /\ scan[s].threatProbability = Lit(70)
     /\ scan[s].historicalPattern.confidence_score = Lit(30)
     /\ ret[s].threatProbability = Lit(50)

\* The pattern type the thresholds of C8 give probability p.
C8_Typed(type, p) ==
  /\ type \in {"phishing", "suspicious", "legitimate"}
  /\ type = "phishing" <=> DblGreater(p, Lit(70))
  /\ type = "suspicious" <=> (DblGreater(p, Lit(40)) /\ ~DblGreater(p, Lit(70)))
  /\ type = "legitimate" <=> ~DblGreater(p, Lit(40))
  /\ p = Lit(70) => type = "suspicious"
  /\ p = Lit(40) => type = "legitimate"

\* C8: the pattern type written is phishing for a blended probability
\* > 0.7, suspicious for one > 0.4 and <= 0.7, legitimate otherwise, so 0.7
\* is suspicious and 0.4 legitimate; 'unknown' is never written.  A row's
\* type is written by the insert (a row of count 1 holds the inserted
\* probability); every upsert writes the type to its log row.
C8_PatternType ==
  /\ \A i \in 1..Len(ml_patterns) :
       /\ ml_patterns[i].pattern_type \in {"phishing", "suspicious", "legitimate"}
       /\ ml_patterns[i].detection_count = 1 =>
            C8_Typed(ml_patterns[i].pattern_type, ml_patterns[i].confidence_score)
  /\ \A l \in blockchain_logs : C8_Typed(l.pattern_type, l.threat_probability)

C8_Witness ==
  \E i, j \in 1..Len(ml_patterns) :
     /\ ml_patterns[i].detection_count = 1
     /\ ml_patterns[i].confidence_score = Lit(70)
     /\ ml_patterns[i].pattern_type = "suspicious"
     /\ ml_patterns[j].detection_count = 1
     /\ ml_patterns[j].confidence_score = Lit(40)
     /\ ml_patterns[j].pattern_type = "legitimate"

\* The rule table of C9: condition and points of each rule for features f.
C9_Rules(f) ==
  << <<f.urlLength > 75, 15>>,       <<f.urlLength > 100, 10>>,
     <<f.numHyphens > 2, 10>>,       <<f.numDigits > 8, 10>>,
     <<f.numSpecialChars > 5, 15>>,  <<f.hasIpAddress, 25>>,
     <<f.hasSuspiciousKeywords, 20>>, <<f.entropyScore > 450, 15>>,
     <<f.subdomainCount > 3, 15>>,   <<f.pathDepth > 5, 10>> >>

C9_Sum(f) ==
  LET r == C9_Rules(f)
      pts(i) == IF r[i][1] THEN r[i][2] ELSE 0
  IN  pts(1) + pts(2) + pts(3) + pts(4) + pts(5)
      + pts(6) + pts(7) + pts(8) + pts(9) + pts(10)

C9_AllFire(f) == \A i \in 1..10 : C9_Rules(f)[i][1]

\* C9: threatScore = min(100, sum of the points of the rules that fire), so
\* it is in 0..100, also when all ten rules fire (sum 145).
C9_Score ==
  sc_result # NoScore =>
    /\ sc_result.threatScore =
         (IF C9_Sum(sc_features) > 100 THEN 100 ELSE C9_Sum(sc_features))
    /\ sc_result.threatScore \in 0..100
    /\ C9_AllFire(sc_features) =>
         (C9_Sum(sc_features) = 145 /\ sc_result.threatScore = 100)

C9_Witness ==
  /\ sc_result # NoScore
  /\ C9_AllFire(sc_features)
  /\ sc_result.threatScore = 100

\* The labelled rules: the condition of each label for features f.
C10_Holds(label, f) ==
  CASE label = "Abnormally long URL"  -> f.urlLength > 100
    [] label = "IP-based URL"         -> f.hasIpAddress
    [] label = "Suspicious keywords"  -> f.hasSuspiciousKeywords
    [] label = "High entropy"         -> f.entropyScore > 450
    [] label = "Excessive subdomains" -> f.subdomainCount > 3

\* The categories cats are the labels of order whose rule holds for f, each
\* once, in the order of the sequence order.
C10_Listed(cats, f, order) ==
  /\ \A i \in 1..Len(order) :
       (\E k \in 1..Len(cats) : cats[k] = order[i]) <=> C10_Holds(order[i], f)
  /\ \A k \in 1..Len(cats) : \E i \in 1..Len(order) : cats[k] = order[i]
  /\ \A k, m \in 1..Len(cats) :
       k < m => \E i, j \in 1..Len(order) :
                  i < j /\ order[i] = cats[k] /\ order[j] = cats[m]

\* C10 as stated: the labels of the rules that fire, in the order of the
\* rule table.
C10_TableOrder ==
  sc_result # NoScore =>
    C10_Listed(sc_result.predictedCategories, sc_features,
               << "Abnormally long URL", "IP-based URL", "Suspicious keywords",
                  "High entropy", "Excessive subdomains" >>)

\* C10 amended: the labels of the rules that fire, a label being present
\* exactly when its condition holds whether or not the score was clamped,
\* in the order 'IP-based URL', 'Suspicious keywords', 'Abnormally long
\* URL', 'Excessive subdomains', 'High entropy'.
C10_PushOrder ==
  sc_result # NoScore =>
    C10_Listed(sc_result.predictedCategories, sc_features,
               << "IP-based URL", "Suspicious keywords", "Abnormally long URL",
                  "Excessive subdomains", "High entropy" >>)

C10_Witness ==
  /\ sc_result # NoScore
  /\ Len(sc_result.predictedCategories) = 5
  /\ sc_result.threatScore = 100

\* The score of the feature set scored, its length replaced by len.
C11_At(len) == calculateMLThreatScore([sc_features EXCEPT !.urlLength = len])

\* C11 as stated: all else fixed, length 76 scores at least 15 more than
\* length 74, and length 101 at least 25 more than length 99.
C11_Original ==
  sc_result # NoScore =>
    /\ sc_features.urlLength = 76 => sc_result.threatScore >= C11_At(74) + 15
    /\ sc_features.urlLength = 101 => sc_result.threatScore >= C11_At(99) + 25

\* C11 amended: all else fixed, the score does not fall as the length grows;
\* length 76 scores 15 more than length 74 and length 101 scores 10 more
\* than length 99 (25 more than length 74), each up to the clamp at 100.
C11_LengthSteps ==
  sc_result # NoScore =>
    /\ sc_features.urlLength = 76 =>
         sc_result.threatScore = Min(100, C11_At(74) + 15)
    /\ sc_features.urlLength = 101 =>
         /\ sc_result.threatScore = Min(100, C11_At(99) + 10)
         /\ sc_result.threatScore = Min(100, C11_At(74) + 25)
    /\ \A len \in {74, 76, 99, 101} :
         len <= sc_features.urlLength => C11_At(len) <= sc_result.threatScore

C11_Witness ==
  /\ sc_result # NoScore
  /\ sc_features.urlLength = 101
  /\ sc_result.threatScore = 35
  /\ C11_At(99) = 25
  /\ C11_At(74) = 10

\* The features of sc_url have been extracted.
Extracted == sc_features # NoFeatures

\* The parse of extractMLFeatures failed for sc_url.
Unparsed == ~PrefixedURL(sc_url).ok

\* The whole of host is a dotted quad.
IsDottedQuad(host) ==
  /\ \A i \in 1..Len(host) : host[i] \in Digits \cup {"."}
  /\ SplitLength(host, ".") = 4
  /\ DottedQuadTest(host)

\* C17 as stated: for an input whose parse fails, extractMLFeatures does not
\* raise and returns subdomainCount = 0 and hasIpAddress = false.
C17_Original ==
  /\ ~Extracted => ENABLED Extract
  /\ (Extracted /\ Unparsed) =>
        sc_features.subdomainCount = 0 /\ ~sc_features.hasIpAddress

\* C17 amended: for an input whose parse fails, extractMLFeatures does not
\* raise; it takes the text before the first "/" as the host, so
\* subdomainCount is the number of dot-separated parts of that text less 2
\* (0 if that is negative), and hasIpAddress is, as for every input, whether
\* a dotted quad occurs anywhere in the input.
C17_Fallback ==
  /\ ~Extracted => ENABLED Extract
  /\ (Extracted /\ Unparsed) =>
        LET parts == SplitLength(SplitFirst(sc_url, "/"), ".")
        IN  /\ sc_features.subdomainCount = (IF parts > 2 THEN parts - 2 ELSE 0)
            /\ sc_features.hasIpAddress <=> DottedQuadTest(sc_url)

C17_Witness ==
  /\ Extracted
  /\ Unparsed
  /\ sc_features.subdomainCount = 1

\* C18 as stated: hasIpAddress is true exactly when the host of the URL is a
\* dotted quad; a dotted quad in the path of a URL whose host is a name adds
\* neither the 25 points nor the category 'IP-based URL'.
C18_HostOnly ==
  (Extracted /\ ~Unparsed) =>
     LET host == PrefixedURL(sc_url).hostname
     IN  /\ sc_features.hasIpAddress <=> IsDottedQuad(host)
         /\ (sc_result # NoScore /\ ~IsDottedQuad(host)) =>
               /\ sc_result.threatScore =
                    calculateMLThreatScore([sc_features EXCEPT !.hasIpAddress = FALSE])
               /\ \A k \in 1..Len(sc_result.predictedCategories) :
                    sc_result.predictedCategories[k] # "IP-based URL"

\* The assessment of scan s computed from its features and the historical
\* record it was given alone.
ComputedAssessment(s) ==
  LET p == AdjustedProbability(scan[s].threatProbability, scan[s].historicalPattern)
  IN  [isPhishing |-> DblGreater(p, Lit(50)),
       confidence |-> IF scan[s].historicalPattern # NoRow THEN Lit(90) ELSE Lit(75),
       threatProbability |-> p,
       predictedCategories |->
          predictedCategories(scan[s].features) \o KnownPattern(scan[s].historicalPattern)]

\* C14: a failed store call of the upsert (select, update, insert or log
\* insert) never fails the scan and never changes the assessment: what is
\* returned is what the features and the historical record give, as when
\* every call succeeds.
C14_WriteFailure ==
  \A s \in Scans : Returned(s) => ret[s] = ComputedAssessment(s)

C14_Witness ==
  \E s \in Scans :
     /\ Returned(s)
     /\ h_store[s].lookup = "ok"
     /\ h_store[s].write = "throw"
     /\ ret[s].isPhishing
     /\ ret[s].threatProbability = Lit(80)

\* The historical lookup of scan s did not succeed.
LookupFailed(s) == h_store[s].lookup \in {"error", "throw"}

\* C15: when the historical lookup fails, the classification is that of a
\* domain without history (threatProbability the raw probability, confidence
\* 0.75, no 'Known phishing pattern'), also when the store holds a phishing
\* row of the domain, and an assessment is returned.
C15_LookupFailure ==
  \A s \in Scans :
     /\ (scan[s].pc # "idle" /\ LookupFailed(s)) => scan[s].historicalPattern = NoRow
     /\ (Returned(s) /\ LookupFailed(s)) =>
          /\ ret[s].threatProbability = scan[s].threatProbability
          /\ ret[s].confidence = Lit(75)
          /\ ret[s].predictedCategories = predictedCategories(scan[s].features)
          /\ \A k \in 1..Len(ret[s].predictedCategories) :
               ret[s].predictedCategories[k] # "Known phishing pattern"

C15_Witness ==
  \E s \in Scans :
     /\ Returned(s)
     /\ LookupFailed(s)
     /\ \E i \in 1..Len(ml_patterns) :
          /\ ml_patterns[i].url_pattern = scan[s].domain
          /\ ml_patterns[i].pattern_type = "phishing"
          /\ ml_patterns[i].detection_count = 1
     /\ h_store[s].write = "error"

\* x is in [0, 1].
InUnit(x) == ~DblGreater(DblZero, x) /\ ~DblGreater(x, Lit(100))

CategoryLabels ==
  { "IP-based URL", "Suspicious keywords", "Abnormally long URL",
    "Excessive subdomains", "High entropy", "Known phishing pattern" }

WellFormed(r) ==
  /\ DOMAIN r = {"isPhishing", "confidence", "threatProbability", "predictedCategories"}
  /\ r.isPhishing \in BOOLEAN
  /\ InUnit(r.threatProbability)
  /\ InUnit(r.confidence)
  /\ \A k \in 1..Len(r.predictedCategories) : r.predictedCategories[k] \in CategoryLabels

\* C16: for every input and every outcome of the store calls the
\* classification goes on to its end (a started scan always has its next
\* step) and returns a well-formed assessment: threatProbability and
\* confidence in [0, 1], isPhishing a boolean, categories a sequence of labels.
C16_WellFormed ==
  \A s \in Scans :
     /\ scan[s].pc = "select" => ENABLED UpsertSelectFail(s)
     /\ scan[s].pc = "write" => ENABLED UpsertWriteFail(s)
     /\ Returned(s) => WellFormed(ret[s])

C16_Witness ==
  \E s \in Scans :
     /\ Returned(s)
     /\ scan[s].domain = <<>>
     /\ h_store[s].select = "throw"
     /\ WellFormed(ret[s])

\* C19: every returned threatProbability and every stored confidence_score
\* is in [0, 1].
C19_UnitInterval ==
  /\ \A s \in Scans : Returned(s) => InUnit(ret[s].threatProbability)
  /\ \A i \in 1..Len(ml_patterns) : InUnit(ml_patterns[i].confidence_score)

C19_Witness ==
  /\ \E i \in 1..Len(ml_patterns) :
       /\ ml_patterns[i].confidence_score = Lit(100)
       /\ ml_patterns[i].detection_count = 3
  /\ \E s \in Scans :
       /\ WithHistory(s)
       /\ ret[s].threatProbability = Lit(100)

\* C20: for every combination of SSL result, domain age, threat counts and
\* URL patterns, the lookups at their failure defaults included, the score
\* calculateSafetyScore returns is an integer from 0 to 100, which is what
\* the safety_score column accepts.
C20_ScoreRange ==
  sf_score.done => sf_score.value \in 0..100

\* The score has been computed for the arguments with the largest
\* deductions (25 + 20 + 40 + 16), where the floor acts.
C20_Witness ==
  /\ sf_score.done
  /\ ~sf_input.ssl.isValid
  /\ sf_input.domain.ageDays < 30
  /\ sf_input.threats.maliciousCount > 0
  /\ PatternMatches(sf_input.url) = 4
  /\ sf_score.value = 0

\* The lookup of scan s named k was fulfilled.
FulfilledLookup(s, k) == perform[s].settled[k].status = "fulfilled"

\* C12: the four lookups are joined with all-settled semantics: whichever
\* of them are rejected, a scan whose URL parsed ends with its record
\* completed, never failed; each column holds the value of its lookup where
\* that was fulfilled and the lookup's default where it was rejected
\* (ssl_valid false, domain age 0, address 'Unknown', no categories,
\* confidence 0), and the score is computed from exactly these.
C12_AllSettled ==
  \A s \in Scans :
    (perform[s].pc = "done" /\ NewURL(url_scans[s].url).ok) =>
      LET settled == perform[s].settled
          record == url_scans[s]
          ssl == IF FulfilledLookup(s, "ssl") THEN settled.ssl.value
                 ELSE [isValid |-> FALSE, issuer |-> "Unknown", grade |-> "Unknown"]
          domain == IF FulfilledLookup(s, "domain") THEN settled.domain.value
                    ELSE [ageDays |-> 0]
          threats == IF FulfilledLookup(s, "threat") THEN settled.threat.value
                     ELSE [categories |-> <<>>, confidence |-> DblZero,
                           maliciousCount |-> 0, suspiciousCount |-> 0]
      IN  /\ record.status = "completed"
          /\ record.filled
          /\ record.ssl_valid = ssl.isValid
          /\ record.domain_age_days = domain.ageDays
          /\ record.ip_address = IF FulfilledLookup(s, "ip")
                                   THEN settled.ip.value.address ELSE "Unknown"
          /\ record.threat_categories = threats.categories
          /\ record.ml_confidence = threats.confidence
          /\ record.safety_score
               = calculateSafetyScore(ssl, domain, threats, record.url)
          /\ record.is_safe = (record.safety_score >= 70)

\* A scan has completed with two lookups rejected and two fulfilled, the
\* fulfilled threat lookup carrying the categories of the ML prediction.
C12_Witness ==
  \E s \in Scans :
    /\ perform[s].pc = "done"
    /\ url_scans[s].status = "completed"
    /\ ~FulfilledLookup(s, "ssl")
    /\ ~FulfilledLookup(s, "ip")
    /\ FulfilledLookup(s, "domain")
    /\ FulfilledLookup(s, "threat")
    /\ url_scans[s].domain_age_days = 400
    /\ url_scans[s].ip_address = "Unknown"
    /\ url_scans[s].threat_categories # <<>>

\* The store: the tables the backend writes.
storeVars == <<url_scans, ml_patterns, blockchain_logs>>

\* The pending record of scan s has been created.
Accepted(s) == url_scans[s].status = "pending"

\* The record of scan s has its terminal status.
Terminal(s) == url_scans[s].status \in {"completed", "failed"}

\* The pattern update of scan s has been written.
PatternWritten(s) == scan[s].pc = "done" /\ h_store[s].write = "ok"

NeutralSsl == [isValid |-> TRUE, issuer |-> "CA", grade |-> "A"]
NeutralDomain == [ageDays |-> 730]

\* What calculateSafetyScore deducts for each factor of the arguments given:
\* 100 less the score with the other three factors deducting nothing.
SslDeduction ==
  100 - calculateSafetyScore(sf_input.ssl, NeutralDomain, getDefaultThreats, PlainUrl)
AgeDeduction ==
  100 - calculateSafetyScore(NeutralSsl, sf_input.domain, getDefaultThreats, PlainUrl)
ThreatDeduction ==
  100 - calculateSafetyScore(NeutralSsl, NeutralDomain, sf_input.threats, PlainUrl)
UrlDeduction ==
  100 - calculateSafetyScore(NeutralSsl, NeutralDomain, getDefaultThreats, sf_input.url)

\* C21: each factor deducts within its documented range: SSL 0 to 25,
\* domain age 0 to 20, threat intelligence 0 to 40, URL structure 0 to 15.
C21_Ranges ==
  sf_score.done =>
    /\ SslDeduction \in 0..25
    /\ AgeDeduction \in 0..20
    /\ ThreatDeduction \in 0..40
    /\ UrlDeduction \in 0..15

\* The result columns of a row of url_scans.
ResultFields(record) ==
  [filled |-> record.filled, safety_score |-> record.safety_score,
   is_safe |-> record.is_safe, ssl_valid |-> record.ssl_valid,
   domain_age_days |-> record.domain_age_days,
   ip_address |-> record.ip_address,
   threat_categories |-> record.threat_categories,
   ml_confidence |-> record.ml_confidence]

\* C22: a record is created pending; its only later change is one step from
\* pending to completed or to failed, so it never returns to pending and
\* never moves between completed and failed; the url never changes; the
\* result columns are set exactly in the step to completed and are null in
\* every other status; and is_safe is true exactly when safety_score >= 70.
C22_Lifecycle ==
  /\ [][\A s \in Scans :
          url_scans[s]' # url_scans[s] =>
            \/ /\ url_scans[s].status = "none"
               /\ url_scans[s]' = PendingRecord(url_scans[s].url')
            \/ /\ url_scans[s].status = "pending"
               /\ url_scans[s].status' \in {"completed", "failed"}
               /\ url_scans[s].url' = url_scans[s].url]_vars
  /\ [](\A s \in Scans :
          /\ url_scans[s].filled <=> url_scans[s].status = "completed"
          /\ url_scans[s].status # "completed" =>
               ResultFields(url_scans[s]) = ResultFields(NoRecord)
          /\ url_scans[s].status = "completed" =>
               /\ url_scans[s].safety_score \in 0..100
               /\ url_scans[s].is_safe <=> url_scans[s].safety_score >= 70)

\* A record has been completed with a score below 70 and is not safe.
C22_Witness ==
  \E s \in Scans :
    /\ url_scans[s].status = "completed"
    /\ url_scans[s].filled
    /\ url_scans[s].safety_score \in 60..69
    /\ ~url_scans[s].is_safe

\* C23: whenever the store holds a row keyed exactly by the domain of a
\* scan, the historical record the scan blends is a row with that key (the
\* row its upsert goes on to update), never a row of another domain whose
\* key contains the domain.  Stated for scans that run alone, between the
\* lookup and the write, when the store is as the lookup found it.
C23_ExactRow ==
  \A s \in Scans :
    ( /\ scan[s].pc \in {"select", "write"}
      /\ \E i \in 1..Len(ml_patterns) : ml_patterns[i].url_pattern = scan[s].domain )
    => /\ scan[s].historicalPattern # NoRow
       /\ scan[s].historicalPattern.url_pattern = scan[s].domain

\* Every row of ml_patterns keeps its key and its pattern_type in every
\* step, and rows are never removed.
C24_TypeFrozen ==
  /\ Len(ml_patterns') >= Len(ml_patterns)
  /\ \A i \in 1..Len(ml_patterns) :
       /\ ml_patterns[i].url_pattern' = ml_patterns[i].url_pattern
       /\ ml_patterns[i].pattern_type' = ml_patterns[i].pattern_type

\* The first row stored for domain d has type phishing: the domain's first
\* blended probability exceeded 0.7.
FirstSeenPhishing(d) ==
  /\ RowsOf(d) # {}
  /\ ml_patterns[CHOOSE i \in RowsOf(d) : \A j \in RowsOf(d) : i <= j].pattern_type
       = "phishing"

\* Scan s returned the category 'Known phishing pattern'.
KnownPhishing(s) ==
  /\ Returned(s)
  /\ \E i \in 1..Len(ret[s].predictedCategories) :
       ret[s].predictedCategories[i] = "Known phishing pattern"

\* C24: an upsert on an existing row leaves its pattern_type unchanged, so
\* the stored type stays the one of the row's first observation; hence
\* 'Known phishing pattern' is returned only for scans of domains whose first
\* blended probability exceeded 0.7.
C24_FirstObservation ==
  /\ [][C24_TypeFrozen]_vars
  /\ [](\A s \in Scans : KnownPhishing(s) => FirstSeenPhishing(scan[s].domain))

\* The polling chain of scan s is still running: handleScan awaits the scan
\* request, or a status request is in flight or scheduled.
ChainRunning(s) == chain[s].state \in {"submitted", "request", "scheduled"}

\* C25: while the polling chain of a scan is running the scanning flag is
\* set, so that no second scan can be started, and the result shown is that
\* of the scan submitted last.
C25_LatestShown ==
  /\ \A s \in Scans : ChainRunning(s) => ui.isScanning
  /\ ui.scanResult # 0 => ui.scanResult = ui.submitted

\* The threat_detected rows logged for scan s.
ThreatLogs(s) ==
  { row \in blockchain_logs : row.log_type = "threat_detected" /\ row.scan = s }

\* C26: every scan submitted through the component whose completed result
\* has a safety score below 70 has exactly one threat_detected row in
\* blockchain_logs once its result is shown, whether the result came with
\* the answer of the scan request or through polling.
C26_ThreatLogged ==
  \A s \in Scans :
    (chain[s].state = "shown" /\ url_scans[s].safety_score < 70)
      => Cardinality(ThreatLogs(s)) = 1

\* The polling chain of scan s has ended.
ChainEnded(s) == chain[s].state \in {"shown", "failed", "timeout", "error"}

\* One step of the polling chain of scan s as C27 allows it: a status
\* request is sent only while none is in flight and fewer than maxAttempts
\* were sent, and a chain that has ended stays as it is.
C27_Step(s) ==
  /\ chain[s].attempts' # chain[s].attempts =>
       /\ chain[s].attempts' = chain[s].attempts + 1
       /\ chain[s].attempts < maxAttempts
       /\ chain[s].inflight = 0
       /\ chain[s].inflight' = 1
  /\ ChainEnded(s) => chain[s]' = chain[s]
  /\ (~ChainEnded(s) /\ ChainEnded(s)') =>
       /\ chain[s].state = "request"
       /\ chain[s].state' = "shown" => (url_scans[s].status = "completed"
                                          /\ ui.scanResult' = s)
       /\ chain[s].state' = "failed" => url_scans[s].status = "failed"
       /\ chain[s].state' = "timeout" => (url_scans[s].status = "pending"
                                            /\ chain[s].attempts = maxAttempts)
       /\ chain[s].state' # "shown" => ui.error' # ""
  /\ (chain[s].state = "request" /\ chain[s].state' = "scheduled") =>
       (url_scans[s].status = "pending" /\ chain[s].attempts < maxAttempts)

\* C27: polling of one scan sends at most maxAttempts = 30 status requests,
\* one at a time; it ends at the first completed answer (result shown), the
\* first failed answer or request error (error shown), and after the 30th
\* answer that is neither it reports a timeout; an ended chain sends nothing
\* more.
C27_Polling ==
  /\ [][\A s \in Scans : C27_Step(s)]_vars
  /\ [](\A s \in Scans : /\ chain[s].attempts <= maxAttempts
                         /\ chain[s].inflight \in 0..1
                         /\ ChainEnded(s) => chain[s].inflight = 0)

C27_Witness ==
  \E s \in Scans :
    /\ chain[s].state = "timeout"
    /\ chain[s].attempts = maxAttempts
    /\ ui.error = "Scan timeout. Please try again."

\* C28: a request of an identifier for which maxRequestsPer5Min = 100 or
\* more validations were logged in the preceding five minutes gets
\* rate_limit_valid = false and with it isValid = false (the select of the
\* log having worked); and isValid is true exactly when the origin,
\* rate-limit, payload and timestamp checks all pass.
C28_RateLimit ==
  ~zt.last.none =>
    /\ (zt.last.select = "ok" /\ zt.last.before >= maxRequestsPer5Min) =>
         (~zt.last.metadata.rate_limit_valid /\ ~zt.last.isValid)
    /\ zt.last.isValid <=>
         /\ zt.last.metadata.origin_valid
         /\ zt.last.metadata.rate_limit_valid
         /\ zt.last.metadata.payload_valid
         /\ zt.last.metadata.timestamp_valid

\* The threat lookup of scan s was fulfilled with the ML prediction alone,
\* and the blended probability of the prediction is above 0.5.
MLOnlyPhishing(s) ==
  /\ perform[s].pc \in {"update", "done"}
  /\ perform[s].settled.threat = Fulfilled(MLOnlyThreats(ret[s]))
  /\ DblGreater(ret[s].threatProbability, Lit(50))

\* C29: without a VirusTotal result and with the threat lookup fulfilled, a
\* scan whose blended ML probability is above 0.5 is a phishing prediction,
\* counts one malicious detection, and completes with a safety score of at
\* most 60 and is_safe false, whatever the other lookups gave.
C29_MLOnly ==
  \A s \in Scans :
    MLOnlyPhishing(s) =>
      /\ ret[s].isPhishing
      /\ perform[s].settled.threat.value.maliciousCount = 1
      /\ url_scans[s].status = "completed" =>
           /\ url_scans[s].safety_score <= 60
           /\ ~url_scans[s].is_safe

C29_Witness ==
  \E s \in Scans :
    /\ MLOnlyPhishing(s)
    /\ url_scans[s].status = "completed"
    /\ url_scans[s].safety_score = 60
    /\ perform[s].settled.ssl.status = "fulfilled"

\* C30: the classifier of the client and that of the edge function agree:
\* for every URL they compute the same features, and from them the same
\* threat score, hence the same threat probability and isPhishing for the
\* same pattern store, and the same categories.
C30_Agree ==
  /\ sc_features # NoFeatures => extractFeatures(sc_url) = sc_features
  /\ sc_result # NoScore => classifyURL(sc_url) = sc_result

====
